---- MODULE Spec2Model ----
(***************************************************************************)
(* Batched data transfer and repair engine of EmergencyRestore.            *)
(*                                                                         *)
(* utils.js     executeWithRetry, formatProgress                           *)
(* database.js  getTableList, getTableSchema, bulkInsertData               *)
(* transfer.js  transferTableData, transferData                            *)
(* fixer.js     fixTableStructure, retransferTableData,                    *)
(*              transferBatchIndividually, fixDatabaseIssues               *)
(* verifier.js  compareTableStructure, calculateTableChecksum,             *)
(*              verifyTableData                                            *)
(* disaster-recovery.js  executeDisasterRecovery, validateConfiguration,   *)
(*              performMigration, main, signal handlers                    *)
(* restore-db.js  restoreDatabase                                          *)
(*                                                                         *)
(* A run is one of: a call of executeWithRetry, transferData,              *)
(* fixDatabaseIssues, a call on its own of the fallback's value            *)
(* formatting, of compareTableStructure, of verifyTableData, of the        *)
(* CREATE TABLE builders or of getTableSchema, the disaster recovery       *)
(* process with its signal handlers (main), its performMigration, or the   *)
(* restoreDatabase process.                                                *)
(*                                                                         *)
(* The program is single threaded; every await is a step of the machine.   *)
(* pc is the position of the one thread of control, and the records tt,    *)
(* rt, fb, fs, td, fx and retry are the local variables of the function    *)
(* activations of the same names.  Every database call either returns or   *)
(* raises; which one is the environment's choice.                          *)
(***************************************************************************)
EXTENDS Integers, Sequences, FiniteSets, TLC

(***************************************************************************)
(* Bounds of the model                                                     *)
(***************************************************************************)
\* largest number of rows of a source table
MaxRows == 3
\* largest number of tables in the source catalog
MaxTables == 2
\* largest maxRetries handed to executeWithRetry by the stand-alone caller
MaxRetriesArg == 3
\* largest number of columns of a table handed to compareTableStructure
MaxColumns == 2
MaxOperations == 2
\* window size of transferTableData (10000 in transfer.js), scaled down
BATCH_SIZE == 2
\* window size of retransferTableData (5000 in fixer.js), scaled down
RETRANSFER_BATCH_SIZE == 2

(***************************************************************************)
(* Program constants                                                       *)
(***************************************************************************)
\* executeWithRetry(operation, maxRetries = 3, delay = 1000)
DEFAULT_MAX_RETRIES == 3
DEFAULT_DELAY == 1000
\* progress of retransferTableData is logged every 25000 rows
PROGRESS_EVERY == 25000

\* the tables a catalog can list, in the order of ORDER BY TABLE_NAME
TableNames == <<"Customers", "Orders", "Products", "Suppliers">>

Min(a, b) == IF a < b THEN a ELSE b

RECURSIVE Pow2(_)
Pow2(n) == IF n = 0 THEN 1 ELSE 2 * Pow2(n - 1)

\* ceil(n / b) for n >= 0, b > 0
CeilDiv(n, b) == (n + b - 1) \div b

(***************************************************************************)
(* Errors.  A message is a sequence of phrases; String.includes(s) is      *)
(* membership of the phrase s.                                             *)
(***************************************************************************)
NoError == <<>>
ErrTimeout == <<"Timeout", "expired">>
ErrOleDb == <<"OLE DB", "provider", "error">>
ErrorMessages == {ErrTimeout, ErrOleDb}

Includes(message, phrase) == \E i \in DOMAIN message : message[i] = phrase

\* String.prototype.toLowerCase on the type names of the catalog
ToLowerCase(name) ==
    CASE name = "DateTime" -> "datetime"
      [] name = "DATETIME2" -> "datetime2"
      [] OTHER -> name

(***************************************************************************)
(* Values an awaited operation resolves to.                                *)
(***************************************************************************)
Undefined == [kind |-> "undefined"]
RowsValue(rows) == [kind |-> "recordset", rows |-> rows]
OpValue(v) == [kind |-> "value", v |-> v]
OpValues == {OpValue("v1"), OpValue("v2")}

VARIABLES
    main,       \* entry point of the run
    pc,         \* position of the thread of control
    tableList,  \* result of getTableList(sourcePool), ORDER BY TABLE_NAME
    src,        \* rows of each source table, in paging order (static)
    tgt,        \* rows of each target table, in insertion order
    tgt0,       \* rows of each target table when the run started
    tgtDef,     \* definition of each target table: "absent", "same" (as the
                \* source's columns) or "diff"
    backup,     \* rows of [<table>_backup], or NoBackup if there is none
    retry,      \* activation of executeWithRetry
    td,         \* activation of transferData
    tt,         \* activation of transferTableData
    fx,         \* activation of fixDatabaseIssues
    fs,         \* activation of fixTableStructure
    rt,         \* activation of retransferTableData
    fb,         \* activation of transferBatchIndividually
    hist,       \* database calls issued for the table in hand
    call,       \* argument and result of a function called on its own
    stmts,      \* statements sent to the target that change it, in order
    proc        \* the disaster recovery process: its pools and its exit

vars == <<main, pc, tableList, src, tgt, tgt0, tgtDef, backup,
          retry, td, tt, fx, fs, rt, fb, hist, call, stmts, proc>>

\* what no step of the transfer and repair engine changes
dbInputs == <<main, tableList, src, tgt0, call, proc>>

\* and what only the steps that send a changing statement change
dbStatic == <<dbInputs, stmts>>

\* a statement sent to the target; a run of the same statement on the same
\* table is kept once
Statement(kind, table) == [kind |-> kind, table |-> table]

Issued(log, kind, table) ==
    IF log # <<>> /\ log[Len(log)] = Statement(kind, table) THEN log
    ELSE Append(log, Statement(kind, table))

NoCall == [fn |-> "none"]

\* what a call of a function on its own leaves alone
engineState == <<main, tableList, src, tgt, tgt0, tgtDef, backup,
            retry, td, tt, fx, fs, rt, fb, hist, stmts>>

engine == <<engineState, proc>>

(***************************************************************************)
(* database.js                                                             *)
(***************************************************************************)
\* SELECT * FROM [t] ORDER BY (SELECT NULL) OFFSET o ROWS FETCH NEXT n ROWS ONLY
FetchWindow(rows, offset, size) ==
    SubSeq(rows, offset + 1, Min(offset + size, Len(rows)))

\* SELECT COUNT(*) as total FROM [t]
CountRows(rows) == Len(rows)

\* bulkInsertData: no rows, no driver call; otherwise request.bulk(bulkTable)
BulkIssuesRequest(rows) == Len(rows) # 0

\* request.bulk commits the whole row set as one unit
BulkLoaded(old, rows) == old \o rows

(***************************************************************************)
(* utils.js: formatProgress                                                *)
(***************************************************************************)
\* Number.toLocaleString(): the digits in groups of three
RECURSIVE ToLocaleString(_)
ToLocaleString(n) ==
    IF n < 1000 THEN <<n>>
    ELSE Append(ToLocaleString(n \div 1000), n % 1000)

\* (num / den).toFixed(1): the nearest tenth, as integer part and one digit
ToFixed1(num, den) ==
    LET tenths == (20 * num + den) \div (2 * den)
    IN  [int |-> tenths \div 10, frac |-> tenths % 10]

\* `${current.toLocaleString()}/${total.toLocaleString()} (${percentage.toFixed(1)}%)`
\* the percentage is handed over as the fraction num / den
FormatProgress(current, total, num, den) ==
    [current |-> ToLocaleString(current),
     total |-> ToLocaleString(total),
     percentage |-> ToFixed1(num, den)]

(***************************************************************************)
(* utils.js: executeWithRetry                                              *)
(***************************************************************************)
IdleRetry ==
    [op |-> "none", table |-> "none", rows |-> <<>>, offset |-> 0,
     max |-> 0, delay0 |-> 0, delay |-> 0, attempt |-> 0, calls |-> 0,
     failures |-> 0, caught |-> NoError, waits |-> <<>>,
     outcome |-> "idle", opValue |-> Undefined, opError |-> NoError,
     value |-> Undefined, error |-> NoError, ret |-> "none"]

\* for (let attempt = 1; attempt <= maxRetries; attempt++)
RetryLoopTest(attempt, maxRetries) == attempt <= maxRetries

\* giving up one attempt early
RetryExhaustedEarly(attempt, maxRetries) == attempt >= maxRetries - 1

\* if (attempt === maxRetries) throw error
RetryExhausted(attempt, maxRetries) == attempt = maxRetries

\* the delay left as it is
NextDelayConstant(delay) == delay

\* delay *= 2
NextDelay(delay) == delay * 2

\* return await operation()
RetryReturn(opValue) == opValue

\* throw error: the error caught in this iteration
RetryThrown(caught) == caught

\* entering executeWithRetry(operation, maxRetries, delay); ret is the
\* position of the caller's continuation
RetryEnter(op, table, rows, offset, maxRetries, delay, ret) ==
    [IdleRetry EXCEPT !.op = op, !.table = table, !.rows = rows,
                      !.offset = offset, !.max = maxRetries,
                      !.delay0 = delay, !.delay = delay, !.attempt = 1,
                      !.outcome = IF RetryLoopTest(1, maxRetries)
                                  THEN "running" ELSE "returned",
                      !.ret = ret]

RetryEnterPc(maxRetries, ret) ==
    IF RetryLoopTest(1, maxRetries) THEN "retry_attempt" ELSE ret

\* what the wrapped operation can do when it is invoked
OpResults(op, table, rows, offset) ==
    CASE op = "op" ->
            [ok : {TRUE}, value : OpValues, error : {NoError}]
            \cup [ok : {FALSE}, value : {Undefined}, error : ErrorMessages]
      [] op = "fetch" ->
            {[ok |-> TRUE,
              value |-> RowsValue(FetchWindow(src[table], offset,
                                              RETRANSFER_BATCH_SIZE)),
              error |-> NoError]}
            \cup [ok : {FALSE}, value : {Undefined}, error : ErrorMessages]
      [] op = "bulk" ->
            {[ok |-> TRUE, value |-> Undefined, error |-> NoError]}
            \cup (IF BulkIssuesRequest(rows)
                  THEN [ok : {FALSE}, value : {Undefined},
                        error : ErrorMessages]
                  ELSE {})

\* one iteration of the loop up to the await of the back-off timer
RetryAttempt ==
    /\ pc = "retry_attempt"
    /\ \E res \in OpResults(retry.op, retry.table, retry.rows, retry.offset) :
          /\ tgt' = IF retry.op = "bulk" /\ res.ok
                    THEN [tgt EXCEPT ![retry.table] =
                              BulkLoaded(tgt[retry.table], retry.rows)]
                    ELSE tgt
          /\ hist' = CASE retry.op = "bulk" /\ BulkIssuesRequest(retry.rows) ->
                            [hist EXCEPT !.bulkCalls = @ + 1,
                                         !.bulkFails =
                                             IF res.ok THEN @ ELSE @ + 1]
                        [] retry.op = "fetch" ->
                            [hist EXCEPT !.fetches = Append(@, retry.offset),
                                         !.fetchFails =
                                             IF res.ok THEN @ ELSE @ + 1]
                        [] OTHER -> hist
          /\ IF res.ok
             THEN /\ retry' = [retry EXCEPT !.calls = @ + 1,
                                            !.opValue = res.value,
                                            !.value = RetryReturn(res.value),
                                            !.outcome = "returned"]
                  /\ pc' = retry.ret
             ELSE IF RetryExhausted(retry.attempt, retry.max)
                  THEN /\ retry' = [retry EXCEPT
                                       !.calls = @ + 1,
                                       !.failures = @ + 1,
                                       !.opError = res.error,
                                       !.caught = res.error,
                                       !.error = RetryThrown(res.error),
                                       !.outcome = "threw"]
                       /\ pc' = retry.ret
                  ELSE /\ retry' = [retry EXCEPT !.calls = @ + 1,
                                                 !.failures = @ + 1,
                                                 !.opError = res.error,
                                                 !.caught = res.error]
                       /\ pc' = "retry_wait"
    /\ UNCHANGED <<dbInputs, tgtDef, backup, td, tt, fx, fs, rt, fb>>
    /\ stmts' = IF retry.op = "bulk" /\ BulkIssuesRequest(retry.rows)
              THEN Issued(stmts, "INSERT", retry.table)
              ELSE stmts

\* await new Promise(resolve => setTimeout(resolve, delay)); delay *= 2;
\* attempt++ and the loop test
RetryWait ==
    /\ pc = "retry_wait"
    /\ LET attempt == retry.attempt + 1
       IN  /\ retry' = [retry EXCEPT !.waits = Append(@, retry.delay),
                                     !.delay = NextDelay(@),
                                     !.caught = NoError,
                                     !.opError = NoError,
                                     !.attempt = attempt,
                                     !.outcome =
                                         IF RetryLoopTest(attempt, retry.max)
                                         THEN "running" ELSE "returned"]
           /\ pc' = IF RetryLoopTest(attempt, retry.max)
                    THEN "retry_attempt" ELSE retry.ret
    /\ UNCHANGED <<dbStatic, tgt, tgtDef, backup, td, tt, fx, fs, rt, fb, hist>>

\* a caller of executeWithRetry outside the transfer engine: an arbitrary
\* operation, maxRetries and delay
Delays == {DEFAULT_DELAY, 3}

CallExecuteWithRetry ==
    /\ pc = "start"
    /\ main = "retry"
    /\ \E maxRetries \in 0..MaxRetriesArg, delay \in Delays :
          /\ retry' = RetryEnter("op", "none", <<>>, 0, maxRetries, delay, "done")
          /\ pc' = RetryEnterPc(maxRetries, "done")
    /\ UNCHANGED <<dbStatic, tgt, tgtDef, backup, td, tt, fx, fs, rt, fb, hist>>

(***************************************************************************)
(* transfer.js: transferTableData                                          *)
(***************************************************************************)
\* the database calls issued for one table, reset when a table is taken up:
\* the offsets of the window queries, the number of request.bulk calls and of
\* those that raised, the windows whose bulk load was given up, the windows
\* handed to transferBatchIndividually and the rows of the single INSERTs,
\* the number of window queries that raised and the successCount each call
\* of transferBatchIndividually returned
NoHist ==
    [fetches |-> <<>>, bulkCalls |-> 0, bulkFails |-> 0, rejected |-> <<>>,
     fallbacks |-> <<>>, inserts |-> <<>>, fetchFails |-> 0,
     successCounts |-> <<>>]

NoResult == [transferred |-> -1, total |-> -1]

IdleTT ==
    [table |-> "none", counted |-> FALSE, total |-> 0, offset |-> 0,
     inserted |-> 0, rows |-> <<>>, outcome |-> "idle", result |-> NoResult,
     error |-> NoError, reports |-> <<>>,
     createError |-> NoError, operation |-> "none"]

\* a bare return
EmptyTableResultUndefined == NoResult

\* return { transferred: 0, total: 0 }
EmptyTableResult == [transferred |-> 0, total |-> 0]

\* a window start one row too far
NextOffsetSkip(offset) == offset + BATCH_SIZE + 1

\* offset += BATCH_SIZE
NextOffset(offset) == offset + BATCH_SIZE

\* the window size counted instead of the rows of the window
AddInsertedWindow(inserted, rows) == inserted + BATCH_SIZE

\* insertedCount += sourceData.recordset.length
AddInserted(inserted, rows) == inserted + Len(rows)

\* a loop that is never left
TransferLoopTestAlways(offset, total) == TRUE

\* while (offset < totalRows)
TransferLoopTest(offset, total) == offset < total

\* const progress = (insertedCount / totalRows) * 100, formatted
BatchProgress(inserted, total) ==
    FormatProgress(inserted, total, inserted * 100, total)

\* formatProgress(insertedCount, totalRows, 100) of the completion line
CompletionProgress(inserted, total) ==
    FormatProgress(inserted, total, 100, 1)

\* catch (error) { console.error(...); throw error; } of transferTableData
TTRaise(error) ==
    /\ tt' = [tt EXCEPT !.outcome = "threw", !.error = error]
    /\ pc' = "td_after"

\* const schema = await getTableSchema(sourcePool, table)
TTGetSchema ==
    /\ pc = "tt_schema"
    /\ \/ /\ pc' = "tt_create"
          /\ UNCHANGED tt
       \/ \E e \in ErrorMessages : TTRaise(e)
    /\ UNCHANGED <<dbStatic, tgt, tgtDef, backup, retry, td, fx, fs, rt, fb, hist>>

\* the server's answer to CREATE TABLE for a table that is there
ErrAlreadyObject == <<"There is ", "already an object", " named">>

\* every error of CREATE TABLE taken for an existing table
TableAlreadyExistsAlways(error) == TRUE

\* error.message.includes('already an object')
TableAlreadyExists(error) == Includes(error, "already an object")

\* new DatabaseError(`Error creating table ${tableName}: ${error.message}`,
\*                   tableName, 'CREATE_TABLE')
CreateTableError(tableName, error) ==
    [message |-> <<"Error creating table ", tableName, ": ">> \o error,
     table |-> tableName, operation |-> "CREATE_TABLE"]

\* await createTableIfNotExists(targetPool, table, schema): CREATE TABLE
\* succeeds on an absent table and fails with 'already an object' on a
\* present one, or fails with another error on either; the catch swallows
\* the first kind of error and raises a DatabaseError for the others
TTCreateTable ==
    /\ pc = "tt_create"
    /\ \/ /\ tgtDef[tt.table] = "absent"
          /\ tgtDef' = [tgtDef EXCEPT ![tt.table] = "same"]
          /\ pc' = "tt_count"
          /\ UNCHANGED tt
       \/ /\ \E e \in ErrorMessages \cup {ErrAlreadyObject} :
                /\ e = ErrAlreadyObject => tgtDef[tt.table] # "absent"
                /\ IF TableAlreadyExists(e)
                   THEN /\ tt' = [tt EXCEPT !.createError = e]
                        /\ pc' = "tt_count"
                   ELSE LET raised == CreateTableError(tt.table, e)
                        IN  /\ tt' = [tt EXCEPT
                                         !.outcome = "threw",
                                         !.error = raised.message,
                                         !.operation = raised.operation,
                                         !.createError = e]
                            /\ pc' = "td_after"
          /\ UNCHANGED tgtDef
    /\ UNCHANGED <<dbInputs, tgt, backup, retry, td, fx, fs, rt, fb, hist>>
    /\ stmts' = Issued(stmts, "CREATE", tt.table)

\* SELECT COUNT(*) and the empty-table return
TTCount ==
    /\ pc = "tt_count"
    /\ \/ LET total == CountRows(src[tt.table])
          IN  IF total = 0
              THEN /\ tt' = [tt EXCEPT !.counted = TRUE,
                                       !.total = total,
                                       !.outcome = "returned",
                                       !.result = EmptyTableResult]
                   /\ pc' = "td_after"
              ELSE /\ tt' = [tt EXCEPT !.counted = TRUE, !.total = total]
                   /\ pc' = IF TransferLoopTest(0, total)
                            THEN "tt_fetch" ELSE "tt_end"
       \/ \E e \in ErrorMessages : TTRaise(e)
    /\ UNCHANGED <<dbStatic, tgt, tgtDef, backup, retry, td, fx, fs, rt, fb, hist>>

\* the window query; a non-empty window goes to
\* executeWithRetry(() => bulkInsertData(...)), an empty one to the next
\* offset
TTFetch ==
    /\ pc = "tt_fetch"
    /\ \/ LET rows == FetchWindow(src[tt.table], tt.offset, BATCH_SIZE)
          IN  /\ hist' = [hist EXCEPT !.fetches = Append(@, tt.offset)]
              /\ IF Len(rows) > 0
                 THEN /\ tt' = [tt EXCEPT !.rows = rows]
                      /\ retry' = RetryEnter("bulk", tt.table, rows, tt.offset,
                                             DEFAULT_MAX_RETRIES,
                                             DEFAULT_DELAY, "tt_after_bulk")
                      /\ pc' = RetryEnterPc(DEFAULT_MAX_RETRIES,
                                            "tt_after_bulk")
                 ELSE /\ tt' = [tt EXCEPT !.rows = rows,
                                          !.offset = NextOffset(@)]
                      /\ pc' = IF TransferLoopTest(NextOffset(tt.offset),
                                                   tt.total)
                               THEN "tt_fetch" ELSE "tt_end"
                      /\ UNCHANGED retry
       \/ /\ \E e \in ErrorMessages : TTRaise(e)
          /\ hist' = [hist EXCEPT !.fetches = Append(@, tt.offset),
                                  !.fetchFails = @ + 1]
          /\ UNCHANGED retry
    /\ UNCHANGED <<dbStatic, tgt, tgtDef, backup, td, fx, fs, rt, fb>>

\* after the bulk load: count and report the window and move on, or, in the
\* catch, log the error and break
TTAfterBulk ==
    /\ pc = "tt_after_bulk"
    /\ IF retry.outcome = "returned"
       THEN LET inserted == AddInserted(tt.inserted, tt.rows)
                offset == NextOffset(tt.offset)
            IN  /\ tt' = [tt EXCEPT !.inserted = inserted,
                                    !.offset = offset,
                                    !.reports =
                                        Append(@, BatchProgress(inserted,
                                                                tt.total))]
                /\ pc' = IF TransferLoopTest(offset, tt.total)
                         THEN "tt_fetch" ELSE "tt_end"
                /\ UNCHANGED hist
       ELSE /\ hist' = [hist EXCEPT !.rejected =
                             Append(@, [offset |-> tt.offset,
                                        error |-> retry.error])]
            /\ pc' = "tt_end"
            /\ UNCHANGED tt
    /\ retry' = IdleRetry
    /\ UNCHANGED <<dbStatic, tgt, tgtDef, backup, td, fx, fs, rt, fb>>

\* the completion line and return { transferred, total }
TTFinish ==
    /\ pc = "tt_end"
    /\ tt' = [tt EXCEPT !.reports =
                            Append(@, CompletionProgress(tt.inserted, tt.total)),
                        !.outcome = "returned",
                        !.result = [transferred |-> tt.inserted,
                                    total |-> tt.total]]
    /\ pc' = "td_after"
    /\ UNCHANGED <<dbStatic, tgt, tgtDef, backup, retry, td, fx, fs, rt, fb, hist>>

(***************************************************************************)
(* transfer.js: transferData                                               *)
(***************************************************************************)
IdleTD ==
    [tables |-> <<>>, listed |-> FALSE, idx |-> 0, completed |-> 0,
     attempted |-> <<>>, caught |-> <<>>, outcome |-> "idle",
     error |-> NoError]

\* const tables = await getTableList(sourcePool), outside any try
TDGetTableList ==
    /\ pc = "start"
    /\ main = "transfer"
    /\ \/ /\ td' = [IdleTD EXCEPT !.tables = tableList, !.listed = TRUE,
                                   !.outcome = "running"]
          /\ pc' = "td_loop"
       \/ \E e \in ErrorMessages :
             /\ td' = [IdleTD EXCEPT !.outcome = "threw", !.error = e]
             /\ pc' = "done"
    /\ UNCHANGED <<dbStatic, tgt, tgtDef, backup, retry, tt, fx, fs, rt, fb, hist>>

\* for (const table of tables): the call of transferTableData, or the end of
\* the loop and the return
TDNextTable ==
    /\ pc = "td_loop"
    /\ IF td.idx < Len(td.tables)
       THEN LET table == td.tables[td.idx + 1]
            IN  /\ td' = [td EXCEPT !.idx = @ + 1,
                                    !.attempted = Append(@, table)]
                /\ tt' = [IdleTT EXCEPT !.table = table,
                                        !.outcome = "running"]
                /\ hist' = NoHist
                /\ pc' = "tt_schema"
       ELSE /\ td' = [td EXCEPT !.outcome = "returned"]
            /\ pc' = "done"
            /\ UNCHANGED <<tt, hist>>
    /\ UNCHANGED <<dbStatic, tgt, tgtDef, backup, retry, fx, fs, rt, fb>>

\* a catch that raises the error again
TDCatchRethrow(error) ==
    /\ td' = [td EXCEPT !.outcome = "threw", !.error = error]
    /\ pc' = "done"

\* catch (error) { console.error(...) } of the loop body
TDCatch(error) ==
    /\ td' = [td EXCEPT !.caught = Append(@, tt.table),
                        !.completed = @ + 1]
    /\ pc' = "td_loop"

\* the rest of the loop body: the catch if transferTableData raised, then
\* completedTables++ and the overall progress line
TDAfterTable ==
    /\ pc = "td_after"
    /\ IF tt.outcome = "threw"
       THEN TDCatch(tt.error)
       ELSE /\ td' = [td EXCEPT !.completed = @ + 1]
            /\ pc' = "td_loop"
    /\ tt' = IdleTT
    /\ hist' = NoHist
    /\ UNCHANGED <<dbStatic, tgt, tgtDef, backup, retry, fx, fs, rt, fb>>

(***************************************************************************)
(* verifier.js: calculateTableChecksum                                     *)
(***************************************************************************)
RECURSIVE BitXor(_, _)
BitXor(a, b) ==
    IF a = 0 THEN b
    ELSE IF b = 0 THEN a
    ELSE ((a + b) % 2) + 2 * BitXor(a \div 2, b \div 2)

\* CHECKSUM_AGG(CHECKSUM(...)): the exclusive or of the rows' checksums; a
\* row's checksum is its content, and `checksum || 0` of no rows is 0
\* an aggregate in which the place of a row counts
ChecksumAggPositional(rowChecksum, rest) == (rowChecksum + 2 * rest) % 16

\* CHECKSUM_AGG: one more row checksum taken into the aggregate
ChecksumAgg(rowChecksum, rest) == BitXor(rowChecksum, rest)

RECURSIVE CalculateTableChecksum(_)
CalculateTableChecksum(rows) ==
    IF rows = <<>> THEN 0
    ELSE ChecksumAgg(rows[1], CalculateTableChecksum(Tail(rows)))

Issue(type) == [type |-> type]

(***************************************************************************)
(* verifier.js: compareTableStructure                                      *)
(*                                                                         *)
(* A schema is the recordset of getTableSchema: the columns of the table   *)
(* in ORDINAL_POSITION order, no two of the same name; the schema of a     *)
(* table that does not exist is empty.  A number of the catalog that can   *)
(* be NULL is <<n>>, or <<>> for NULL.                                     *)
(***************************************************************************)
Column(name, type, nullable, length, precision, scale) ==
    [COLUMN_NAME |-> name, DATA_TYPE |-> type, IS_NULLABLE |-> nullable,
     CHARACTER_MAXIMUM_LENGTH |-> length, NUMERIC_PRECISION |-> precision,
     NUMERIC_SCALE |-> scale]

\* new Map(schema.map(col => [col.COLUMN_NAME, col])).has(colName)
MapHas(schema, colName) ==
    \E i \in DOMAIN schema : schema[i].COLUMN_NAME = colName

\* the first column whatever the name
MapGetHead(schema, colName) == schema[1]

\* new Map(...).get(colName), for a name the map has
MapGet(schema, colName) ==
    schema[CHOOSE i \in DOMAIN schema : schema[i].COLUMN_NAME = colName]

\* two values never told apart
StrictlyUnequalNever(a, b) == FALSE

\* a !== b
StrictlyUnequal(a, b) == a # b

CountMismatch(sourceSchema, targetSchema) ==
    [kind |-> "Column count mismatch", sourceCount |-> Len(sourceSchema),
     targetCount |-> Len(targetSchema)]

MissingColumn(colName) ==
    [kind |-> "Missing column in target", column |-> colName]

ExtraColumn(colName) ==
    [kind |-> "Extra column in target", column |-> colName]

AttributeMismatch(colName, attribute, sourceValue, targetValue) ==
    [kind |-> attribute, column |-> colName, source |-> sourceValue,
     target |-> targetValue]

\* the body of for (const [colName, sourceCol] of sourceColumns)
ColumnDifferences(sourceCol, targetSchema) ==
    LET colName == sourceCol.COLUMN_NAME
    IN  IF ~MapHas(targetSchema, colName)
        THEN <<MissingColumn(colName)>>
        ELSE LET targetCol == MapGet(targetSchema, colName)
             IN  (IF StrictlyUnequal(sourceCol.DATA_TYPE, targetCol.DATA_TYPE)
                  THEN <<AttributeMismatch(colName, "type mismatch",
                                           sourceCol.DATA_TYPE,
                                           targetCol.DATA_TYPE)>>
                  ELSE <<>>)
                 \o (IF StrictlyUnequal(sourceCol.IS_NULLABLE,
                                        targetCol.IS_NULLABLE)
                     THEN <<AttributeMismatch(colName, "nullable mismatch",
                                              sourceCol.IS_NULLABLE,
                                              targetCol.IS_NULLABLE)>>
                     ELSE <<>>)
                 \o (IF StrictlyUnequal(sourceCol.CHARACTER_MAXIMUM_LENGTH,
                                        targetCol.CHARACTER_MAXIMUM_LENGTH)
                     THEN <<AttributeMismatch(
                                colName, "length mismatch",
                                sourceCol.CHARACTER_MAXIMUM_LENGTH,
                                targetCol.CHARACTER_MAXIMUM_LENGTH)>>
                     ELSE <<>>)

\* the loop over the source columns, from the column at index from
RECURSIVE SourceColumnsLoop(_, _, _)
SourceColumnsLoop(sourceSchema, targetSchema, from) ==
    IF from > Len(sourceSchema) THEN <<>>
    ELSE ColumnDifferences(sourceSchema[from], targetSchema)
         \o SourceColumnsLoop(sourceSchema, targetSchema, from + 1)

\* the loop over targetColumns.keys(), from the column at index from
RECURSIVE TargetColumnsLoop(_, _, _)
TargetColumnsLoop(sourceSchema, targetSchema, from) ==
    IF from > Len(targetSchema) THEN <<>>
    ELSE (IF ~MapHas(sourceSchema, targetSchema[from].COLUMN_NAME)
          THEN <<ExtraColumn(targetSchema[from].COLUMN_NAME)>>
          ELSE <<>>)
         \o TargetColumnsLoop(sourceSchema, targetSchema, from + 1)

\* the extra columns pushed before everything else
PushedExtraFirst(countEntry, sourceEntries, targetEntries) ==
    targetEntries \o countEntry \o sourceEntries

\* the order of the differences.push calls
Pushed(countEntry, sourceEntries, targetEntries) ==
    countEntry \o sourceEntries \o targetEntries

\* the differences list of compareTableStructure for the two recordsets
StructureDifferences(sourceSchema, targetSchema) ==
    Pushed(IF Len(sourceSchema) # Len(targetSchema)
           THEN <<CountMismatch(sourceSchema, targetSchema)>> ELSE <<>>,
           SourceColumnsLoop(sourceSchema, targetSchema, 1),
           TargetColumnsLoop(sourceSchema, targetSchema, 1))

\* the columns a catalog can list
ColumnVariants ==
    {Column("id", "int", "NO", <<>>, <<10>>, <<0>>),
     Column("id", "bigint", "NO", <<>>, <<19>>, <<0>>),
     Column("id", "int", "YES", <<>>, <<10>>, <<0>>),
     Column("name", "varchar", "YES", <<50>>, <<>>, <<>>),
     Column("name", "varchar", "YES", <<100>>, <<>>, <<>>),
     Column("name", "varchar", "NO", <<-1>>, <<>>, <<>>),
     Column("amount", "decimal", "YES", <<>>, <<10>>, <<2>>),
     Column("amount", "decimal", "YES", <<>>, <<18>>, <<2>>),
     Column("amount", "decimal", "YES", <<>>, <<10>>, <<4>>)}

\* the recordsets of getTableSchema: up to MaxColumns columns in any order,
\* no two of the same name
Schemas ==
    {schema \in UNION {[1..n -> ColumnVariants] : n \in 0..MaxColumns} :
        \A i, j \in DOMAIN schema :
            schema[i].COLUMN_NAME = schema[j].COLUMN_NAME => i = j}

\* the columns of the tables of the transfer and repair runs: every source
\* table has TableSchema; a target table has it too ("same"), has one column
\* of another length ("diff") or does not exist ("absent")
TableSchema ==
    <<Column("id", "int", "NO", <<>>, <<10>>, <<0>>),
      Column("name", "varchar", "YES", <<50>>, <<>>, <<>>)>>

SourceSchemaOf(table) == TableSchema

TargetSchemaOf(table) ==
    CASE tgtDef[table] = "same" -> TableSchema
      [] tgtDef[table] = "diff" ->
            <<Column("id", "int", "NO", <<>>, <<10>>, <<0>>),
              Column("name", "varchar", "YES", <<100>>, <<>>, <<>>)>>
      [] OTHER -> <<>>

\* compareTableStructure(sourcePool, targetPool, tableName) when both
\* getTableSchema calls resolve
CompareTableStructure(table) ==
    StructureDifferences(SourceSchemaOf(table), TargetSchemaOf(table))

\* compareTableStructure called on its own for a table with any two
\* schemas: the differences, or the error of a getTableSchema that raised
CompareStructures ==
    /\ pc = "start"
    /\ main = "compare"
    /\ \E sourceSchema \in Schemas, targetSchema \in Schemas :
          \/ call' = [fn |-> "compareTableStructure",
                      sourceSchema |-> sourceSchema,
                      targetSchema |-> targetSchema,
                      outcome |-> "returned",
                      differences |->
                          StructureDifferences(sourceSchema, targetSchema)]
          \/ \E e \in ErrorMessages :
                call' = [fn |-> "compareTableStructure",
                         sourceSchema |-> sourceSchema,
                         targetSchema |-> targetSchema,
                         outcome |-> "threw", error |-> e]
    /\ pc' = "done"
    /\ UNCHANGED engine

(***************************************************************************)
(* verifier.js: verifyTableData                                            *)
(***************************************************************************)
Query(kind, side) == [query |-> kind, side |-> side]

\* schema.filter(col => !['timestamp', 'rowversion'].includes(...))
ChecksumColumns(schema) ==
    SelectSeq(schema, LAMBDA col :
        ToLowerCase(col.DATA_TYPE) \notin {"timestamp", "rowversion"})

\* calculateTableChecksum(pool, tableName, schema).checksum
TableChecksum(schema, rows) ==
    IF ChecksumColumns(schema) = <<>> THEN 0
    ELSE CalculateTableChecksum(rows)

\* MATCH whatever the issues
StatusAlwaysMatch(issues) == "MATCH"

\* issues.length === 0 ? 'MATCH' : 'MISMATCH'
StatusOf(issues) == IF issues = <<>> THEN "MATCH" ELSE "MISMATCH"

\* the checksum step taken for every table that has rows
ChecksumStepWhenRows(sourceCount, structureDiffs) == sourceCount > 0

\* rowCountComparison.sourceCount > 0 && structureDiffs.length === 0
ChecksumStepTaken(sourceCount, structureDiffs) ==
    sourceCount > 0 /\ structureDiffs = <<>>

DigitChars == <<"0", "1", "2", "3", "4", "5", "6", "7", "8", "9">>

\* a number inside a template literal: its decimal digits
RECURSIVE NumberToString(_)
NumberToString(n) ==
    IF n < 10 THEN <<DigitChars[n + 1]>>
    ELSE Append(NumberToString(n \div 10), DigitChars[(n % 10) + 1])

\* two counts always taken as equal
RowCountMatchAlways(sourceCount, targetCount) == TRUE

\* compareTableRowCounts(...).match
RowCountMatch(sourceCount, targetCount) == sourceCount = targetCount

\* the message of the ROW_COUNT issue, as its words and digits
RowCountMessage(sourceCount, targetCount) ==
    <<"Row count mismatch: ", "source ">> \o NumberToString(sourceCount)
        \o <<", ", "target ">> \o NumberToString(targetCount)

\* two checksums never told apart
ChecksumMismatchNever(sourceChecksum, targetChecksum) == FALSE

\* sourceChecksum.checksum !== targetChecksum.checksum
ChecksumMismatch(sourceChecksum, targetChecksum) ==
    sourceChecksum # targetChecksum

\* the issues collected so far returned with the error
ErrorResultWithIssues(table, issues) ==
    [table |-> table, status |-> "ERROR", rowCount |-> 0,
     issues |-> Append(issues, Issue("ERROR"))]

\* the object returned by the catch; issues is the list collected by then
ErrorResult(table, issues) ==
    [table |-> table, status |-> "ERROR", rowCount |-> 0,
     issues |-> <<Issue("ERROR")>>]

\* verifyTableData for a table with these columns and rows on the two
\* sides: the object it returns and the queries it has sent.  failAt is the
\* number of the query the environment lets raise (0: none); COUNT(*) on a
\* table that does not exist raises by itself.
Verification(table, sourceSchema, targetSchema, sourceRows, targetRows, failAt) ==
    LET structureDiffs == StructureDifferences(sourceSchema, targetSchema)
        structureIssues ==
            [i \in DOMAIN structureDiffs |->
                [type |-> "STRUCTURE", message |-> structureDiffs[i]]]
        sourceCount == CountRows(sourceRows)
        targetCount == CountRows(targetRows)
        rowCountIssue ==
            IF ~RowCountMatch(sourceCount, targetCount)
            THEN <<[type |-> "ROW_COUNT",
                    message |-> RowCountMessage(sourceCount, targetCount)]>>
            ELSE <<>>
        checksumStep == ChecksumStepTaken(sourceCount, structureDiffs)
        checksumIssue ==
            IF /\ checksumStep
               /\ ChecksumMismatch(TableChecksum(sourceSchema, sourceRows),
                                   TableChecksum(sourceSchema, targetRows))
            THEN <<Issue("DATA_CHECKSUM")>> ELSE <<>>
        planned ==
            <<Query("schema", "source"), Query("schema", "target"),
              Query("count", "source"), Query("count", "target")>>
            \o (IF checksumStep
                THEN <<Query("schema", "source")>>
                     \o (IF ChecksumColumns(sourceSchema) # <<>>
                         THEN <<Query("checksum", "source"),
                                Query("checksum", "target")>>
                         ELSE <<>>)
                ELSE <<>>)
        raising ==
            {i \in DOMAIN planned :
                \/ i = failAt
                \/ /\ planned[i].query = "count"
                   /\ (IF planned[i].side = "source" THEN sourceSchema
                       ELSE targetSchema) = <<>>}
        raised == CHOOSE i \in raising : \A k \in raising : i <= k
        collected ==
            (IF raised > 2 THEN structureIssues ELSE <<>>)
            \o (IF raised > 4 THEN rowCountIssue ELSE <<>>)
        issues == structureIssues \o rowCountIssue \o checksumIssue
    IN  IF raising # {}
        THEN [result |-> ErrorResult(table, collected),
              queries |-> SubSeq(planned, 1, raised)]
        ELSE [result |-> [table |-> table, status |-> StatusOf(issues),
                          rowCount |-> sourceCount, issues |-> issues],
              queries |-> planned]

\* the result of verifyTableData for a table of the run; failed says that
\* the environment lets a query raise
VerifyTableData(table, failed) ==
    Verification(table, SourceSchemaOf(table), TargetSchemaOf(table),
                 src[table], tgt[table], IF failed THEN 1 ELSE 0).result

\* the tables handed to verifyTableData on its own: the columns of the two
\* sides (<<>>: no such table) and their rows
VersionSchema ==
    <<Column("version", "timestamp", "NO", <<>>, <<>>, <<>>)>>

VerifySourceSchemas == {TableSchema, VersionSchema, <<>>}

VerifyTargetSchemas == Schemas \cup {VersionSchema}

VerifyRows == {<<>>, <<1>>, <<1, 2>>, <<2, 1>>, <<3>>, <<1, 1>>, <<2, 2>>}

RowsOf(schema) == IF schema = <<>> THEN {<<>>} ELSE VerifyRows

\* the query that raises: none, or one of the seven
FailAts == 0..7

\* verifyTableData called on its own
VerifyOneTable ==
    /\ pc = "start"
    /\ main = "verify"
    /\ \E sourceSchema \in VerifySourceSchemas,
          targetSchema \in VerifyTargetSchemas, failAt \in FailAts :
          \E sourceRows \in RowsOf(sourceSchema),
             targetRows \in RowsOf(targetSchema) :
             LET verification ==
                     Verification("Customers", sourceSchema, targetSchema,
                                  sourceRows, targetRows, failAt)
             IN  call' = [fn |-> "verifyTableData",
                          sourceSchema |-> sourceSchema,
                          targetSchema |-> targetSchema,
                          sourceRows |-> sourceRows,
                          targetRows |-> targetRows,
                          failAt |-> failAt,
                          result |-> verification.result,
                          queries |-> verification.queries]
    /\ pc' = "done"
    /\ UNCHANGED engine

HasIssue(verification, types) ==
    \E i \in DOMAIN verification.issues : verification.issues[i].type \in types

(***************************************************************************)
(* fixer.js: transferBatchIndividually, one entry of the VALUES list       *)
(*                                                                         *)
(* A string is the sequence of its characters.                             *)
(***************************************************************************)
JsNull == [kind |-> "null"]
JsString(chars) == [kind |-> "string", chars |-> chars]
JsBoolean(b) == [kind |-> "boolean", b |-> b]
JsNumber(n) == [kind |-> "number", n |-> n]
\* Buffer: its bytes
JsBuffer(bytes) == [kind |-> "Buffer", bytes |-> bytes]
\* Date: its UTC fields <<year, month, day, hours, minutes, seconds, ms>>,
\* or <<>> for the Invalid Date, whose getTime() is NaN
JsDate(fields) == [kind |-> "Date", fields |-> fields]
InvalidDate == JsDate(<<>>)
\* an exception raised while the entry is computed
Thrown(name) == [kind |-> "throw", name |-> name]

HexChars == DigitChars \o <<"a", "b", "c", "d", "e", "f">>

\* n in decimal, padded with zeros to width characters
RECURSIVE Digits(_, _)
Digits(n, width) ==
    IF width = 0 THEN <<>>
    ELSE Append(Digits(n \div 10, width - 1), DigitChars[(n % 10) + 1])

\* Date.prototype.toISOString: YYYY-MM-DDTHH:mm:ss.sssZ, a RangeError for
\* the Invalid Date
ToISOString(date) ==
    LET f == date.fields
    IN  Digits(f[1], 4) \o <<"-">> \o Digits(f[2], 2) \o <<"-">>
        \o Digits(f[3], 2) \o <<"T">> \o Digits(f[4], 2) \o <<":">>
        \o Digits(f[5], 2) \o <<":">> \o Digits(f[6], 2) \o <<".">>
        \o Digits(f[7], 3) \o <<"Z">>

\* String.prototype.slice(start, end)
Slice(chars, start, end) == SubSeq(chars, start + 1, Min(end, Len(chars)))

\* String.prototype.replace(pattern, by) with a string pattern: the first
\* occurrence only
RECURSIVE ReplaceFirst(_, _, _)
ReplaceFirst(chars, pattern, by) ==
    IF chars = <<>> THEN <<>>
    ELSE IF Head(chars) = pattern THEN <<by>> \o Tail(chars)
    ELSE <<Head(chars)>> \o ReplaceFirst(Tail(chars), pattern, by)

\* a quote left as it is
QuoteNotDoubled(c) == <<c>>

\* what /'/g, "''" makes of one character
QuoteDoubled(c) == IF c = "'" THEN <<"'", "'">> ELSE <<c>>

\* value.replace(/'/g, "''")
RECURSIVE EscapeQuotes(_)
EscapeQuotes(chars) ==
    IF chars = <<>> THEN <<>>
    ELSE QuoteDoubled(Head(chars)) \o EscapeQuotes(Tail(chars))

\* `'${text}'`
Quoted(chars) == <<"'">> \o chars \o <<"'">>

\* Buffer.prototype.toString('hex')
RECURSIVE ToHex(_)
ToHex(bytes) ==
    IF bytes = <<>> THEN <<>>
    ELSE <<HexChars[(Head(bytes) \div 16) + 1], HexChars[(Head(bytes) % 16) + 1]>>
         \o ToHex(Tail(bytes))

IsDigit(c) == \E i \in DOMAIN DigitChars : DigitChars[i] = c

DigitValue(c) == (CHOOSE i \in DOMAIN DigitChars : DigitChars[i] = c) - 1

RECURSIVE ParseInt(_)
ParseInt(chars) ==
    IF chars = <<>> THEN 0
    ELSE 10 * ParseInt(SubSeq(chars, 1, Len(chars) - 1))
         + DigitValue(chars[Len(chars)])

\* new Date(string) for the strings of the model: the date-only ISO form
\* YYYY-MM-DD is that day at 00:00:00.000 UTC, any other text is the
\* Invalid Date
DateFromString(chars) ==
    IF /\ Len(chars) = 10
       /\ chars[5] = "-"
       /\ chars[8] = "-"
       /\ \A i \in {1, 2, 3, 4, 6, 7, 9, 10} : IsDigit(chars[i])
       /\ ParseInt(SubSeq(chars, 6, 7)) \in 1..12
       /\ ParseInt(SubSeq(chars, 9, 10)) \in 1..28
    THEN JsDate(<<ParseInt(SubSeq(chars, 1, 4)), ParseInt(SubSeq(chars, 6, 7)),
                  ParseInt(SubSeq(chars, 9, 10)), 0, 0, 0, 0>>)
    ELSE InvalidDate

\* isNaN(date.getTime())
IsNaNTime(date) == date.fields = <<>>

\* schema.find(c => c.COLUMN_NAME === key) found no column
NoColumn == [COLUMN_NAME |-> "undefined", DATA_TYPE |-> "undefined"]

\* ['datetime', 'datetime2', 'smalldatetime']
TemporalTypes == {"datetime", "datetime2", "smalldatetime"}

SqlNull == JsString(<<"N", "U", "L", "L">>)

\* `'${date.toISOString().slice(0, 19).replace('T', ' ')}'`, with the
\* RangeError toISOString raises for the Invalid Date
DateLiteral(date) ==
    IF IsNaNTime(date) THEN Thrown("RangeError")
    ELSE JsString(Quoted(ReplaceFirst(Slice(ToISOString(date), 0, 19),
                                      "T", " ")))

\* the callback of Object.entries(row).map: the text, or the value, that
\* stands for one value of the row in the VALUES list
FormatValue(column, value) ==
    IF value.kind \in {"null", "undefined"} THEN SqlNull
    ELSE IF /\ column # NoColumn
            /\ ToLowerCase(column.DATA_TYPE) \in TemporalTypes
    THEN IF value.kind = "Date" THEN DateLiteral(value)
         ELSE IF value.kind = "string"
         THEN LET date == DateFromString(value.chars)
              IN  IF IsNaNTime(date) THEN SqlNull ELSE DateLiteral(date)
         ELSE SqlNull
    ELSE IF value.kind = "string"
    THEN JsString(Quoted(EscapeQuotes(value.chars)))
    ELSE IF value.kind = "boolean"
    THEN JsString(IF value.b THEN <<"1">> ELSE <<"0">>)
    ELSE IF value.kind = "Buffer"
    THEN JsString(<<"0", "x">> \o ToHex(value.bytes))
    ELSE value

\* the columns and the values of the rows handed to the fallback
RowColumnTypes ==
    {"datetime", "datetime2", "smalldatetime", "DateTime", "date", "time",
     "datetimeoffset", "varchar", "int", "bit", "varbinary"}

RowColumns ==
    {[COLUMN_NAME |-> "c", DATA_TYPE |-> type] : type \in RowColumnTypes}
    \cup {NoColumn}

RowValues ==
    {JsNull, Undefined,
     JsDate(<<2024, 1, 15, 10, 30, 45, 123>>),
     JsDate(<<1999, 12, 31, 23, 59, 59, 0>>),
     InvalidDate,
     JsString(<<"2", "0", "2", "4", "-", "0", "1", "-", "1", "5">>),
     JsString(<<"n", "/", "a">>),
     JsString(<<"O", "'", "B", "'", "'">>),
     JsString(<<>>),
     JsBoolean(TRUE), JsBoolean(FALSE),
     JsBuffer(<<0, 171, 255>>), JsBuffer(<<>>),
     JsNumber(42)}

\* one value of one row goes through the callback
FormatRowValue ==
    /\ pc = "start"
    /\ main = "values"
    /\ \E column \in RowColumns, value \in RowValues :
          call' = [fn |-> "formatValue", column |-> column, value |-> value,
                   result |-> FormatValue(column, value)]
    /\ pc' = "done"
    /\ UNCHANGED engine

(***************************************************************************)
(* fixer.js: transferBatchIndividually                                     *)
(***************************************************************************)
IdleFB ==
    [table |-> "none", offset |-> 0, batchSize |-> 0, rows |-> <<>>,
     idx |-> 0, successCount |-> 0, attempts |-> <<>>, before |-> <<>>,
     outcome |-> "idle", result |-> 0, error |-> NoError]

\* successCount++ after an insert that resolved
CountSuccess(successCount) == successCount + 1

\* a failed row counted as a success
FallbackRowFailedCounted(successCount) == successCount + 1

\* the catch of one row: log and go on with the next row
FallbackRowFailed(successCount) == successCount

\* the window query of the fallback, outside any try
FBFetch ==
    /\ pc = "fb_fetch"
    /\ \/ LET rows == FetchWindow(src[fb.table], fb.offset, fb.batchSize)
          IN  /\ hist' = [hist EXCEPT !.fetches = Append(@, fb.offset)]
              /\ IF rows = <<>>
                 THEN /\ fb' = [fb EXCEPT !.rows = rows,
                                          !.outcome = "returned",
                                          !.result = 0]
                      /\ pc' = "rt_after_fb"
                 ELSE /\ fb' = [fb EXCEPT !.rows = rows]
                      /\ pc' = "fb_row"
       \/ /\ \E e \in ErrorMessages :
                fb' = [fb EXCEPT !.outcome = "threw", !.error = e]
          /\ pc' = "rt_after_fb"
          /\ hist' = [hist EXCEPT !.fetches = Append(@, fb.offset),
                                  !.fetchFails = @ + 1]
    /\ UNCHANGED <<dbStatic, tgt, tgtDef, backup, retry, td, tt, fx, fs, rt>>

\* one iteration of for (const row of sourceData.recordset): the INSERT of
\* the row, counted if it resolves and skipped if it raises; after the last
\* row, return successCount
FBInsertRow ==
    /\ pc = "fb_row"
    /\ \E ok \in BOOLEAN :
          LET row == fb.rows[fb.idx + 1]
              successCount == IF ok THEN CountSuccess(fb.successCount)
                              ELSE FallbackRowFailed(fb.successCount)
              last == fb.idx + 1 = Len(fb.rows)
          IN  /\ tgt' = IF ok
                        THEN [tgt EXCEPT ![fb.table] = Append(@, row)]
                        ELSE tgt
              /\ hist' = [hist EXCEPT !.inserts = Append(@, row)]
              /\ fb' = [fb EXCEPT !.idx = @ + 1,
                                  !.successCount = successCount,
                                  !.attempts =
                                      Append(@, [row |-> row, ok |-> ok]),
                                  !.outcome = IF last THEN "returned" ELSE @,
                                  !.result = IF last THEN successCount ELSE @]
              /\ pc' = IF last THEN "rt_after_fb" ELSE "fb_row"
    /\ UNCHANGED <<dbInputs, tgtDef, backup, retry, td, tt, fx, fs, rt>>
    /\ stmts' = Issued(stmts, "INSERT", fb.table)

(***************************************************************************)
(* fixer.js: retransferTableData                                           *)
(***************************************************************************)
IdleRT ==
    [table |-> "none", counted |-> FALSE, total |-> 0, offset |-> 0,
     inserted |-> 0, rows |-> <<>>, outcome |-> "idle", error |-> NoError,
     reports |-> <<>>, cleared |-> FALSE]

\* offset += BATCH_SIZE
RetransferNextOffset(offset) == offset + RETRANSFER_BATCH_SIZE

\* every error taken for a data error
IsDataErrorAny(message) == TRUE

\* error.message.includes('OLE DB') || error.message.includes('invalid data')
\*     || error.message.includes('Invalid column type')
IsDataError(message) ==
    \/ Includes(message, "OLE DB")
    \/ Includes(message, "invalid data")
    \/ Includes(message, "Invalid column type")

\* const actualBatchSize = Math.min(BATCH_SIZE, totalRows - offset)
ActualBatchSize(total, offset) == Min(RETRANSFER_BATCH_SIZE, total - offset)

\* if (insertedCount % 25000 === 0 || insertedCount === totalRows) log
RetransferReports(reports, inserted, total) ==
    IF inserted % PROGRESS_EVERY = 0 \/ inserted = total
    THEN Append(reports, FormatProgress(inserted, total, inserted * 100, total))
    ELSE reports

\* the whole window counted whatever the fallback returned
AddSuccessCountWindow(inserted, successCount) ==
    inserted + RETRANSFER_BATCH_SIZE

\* insertedCount += successCount
AddSuccessCount(inserted, successCount) == inserted + successCount

\* the outer catch (error) { console.error(...); throw error; }
RTRaise(error) ==
    /\ rt' = [rt EXCEPT !.outcome = "threw", !.error = error]
    /\ pc' = "fx_after_rt"

\* the catch of a window: a data error goes to transferBatchIndividually for
\* the window, any other error is raised again
RTCatch(error, h) ==
    IF IsDataError(error)
    THEN /\ fb' = [IdleFB EXCEPT !.table = rt.table, !.offset = rt.offset,
                                 !.batchSize =
                                     ActualBatchSize(rt.total, rt.offset),
                                 !.before = tgt[rt.table],
                                 !.outcome = "running"]
         /\ hist' = [h EXCEPT !.fallbacks = Append(@, rt.offset)]
         /\ pc' = "fb_fetch"
         /\ UNCHANGED rt
    ELSE /\ RTRaise(error)
         /\ hist' = h
         /\ UNCHANGED fb

\* a DELETE that removes nothing
DeletedNothing(rows) == rows

\* the rows left by DELETE FROM [table]: none
Deleted(rows) == <<>>

\* DELETE FROM [table]
RTDelete ==
    /\ pc = "rt_delete"
    /\ \/ /\ tgtDef[rt.table] # "absent"
          /\ tgt' = [tgt EXCEPT ![rt.table] = Deleted(tgt[rt.table])]
          /\ pc' = "rt_schema"
          /\ rt' = [rt EXCEPT !.cleared = TRUE]
       \/ /\ \E e \in ErrorMessages : RTRaise(e)
          /\ UNCHANGED tgt
    /\ UNCHANGED <<dbInputs, tgtDef, backup, retry, td, tt, fx, fs, fb, hist>>
    /\ stmts' = Issued(stmts, "DELETE", rt.table)

\* const schema = await getTableSchema(sourcePool, tableName)
RTGetSchema ==
    /\ pc = "rt_schema"
    /\ \/ /\ pc' = "rt_count"
          /\ UNCHANGED rt
       \/ \E e \in ErrorMessages : RTRaise(e)
    /\ UNCHANGED <<dbStatic, tgt, tgtDef, backup, retry, td, tt, fx, fs, fb, hist>>

\* SELECT COUNT(*) and the empty-table return
RTCount ==
    /\ pc = "rt_count"
    /\ \/ LET total == CountRows(src[rt.table])
          IN  IF total = 0
              THEN /\ rt' = [rt EXCEPT !.counted = TRUE,
                                       !.total = total,
                                       !.outcome = "returned"]
                   /\ pc' = "fx_after_rt"
              ELSE /\ rt' = [rt EXCEPT !.counted = TRUE, !.total = total]
                   /\ pc' = "rt_loop"
       \/ \E e \in ErrorMessages : RTRaise(e)
    /\ UNCHANGED <<dbStatic, tgt, tgtDef, backup, retry, td, tt, fx, fs, fb, hist>>

\* while (offset < totalRows): the window query under executeWithRetry, or
\* the end of the loop, the completion line and the return
RTLoop ==
    /\ pc = "rt_loop"
    /\ IF rt.offset < rt.total
       THEN /\ retry' = RetryEnter("fetch", rt.table, <<>>, rt.offset,
                                   DEFAULT_MAX_RETRIES, DEFAULT_DELAY,
                                   "rt_after_fetch")
            /\ pc' = RetryEnterPc(DEFAULT_MAX_RETRIES, "rt_after_fetch")
            /\ UNCHANGED rt
       ELSE /\ rt' = [rt EXCEPT !.outcome = "returned"]
            /\ pc' = "fx_after_rt"
            /\ UNCHANGED retry
    /\ UNCHANGED <<dbStatic, tgt, tgtDef, backup, td, tt, fx, fs, fb, hist>>

\* after the window query: a non-empty window goes to the bulk load under
\* executeWithRetry, an empty one to the next offset, a failure to the catch
RTAfterFetch ==
    /\ pc = "rt_after_fetch"
    /\ IF retry.outcome = "returned"
       THEN LET rows == retry.value.rows
            IN  IF Len(rows) > 0
                THEN /\ rt' = [rt EXCEPT !.rows = rows]
                     /\ retry' = RetryEnter("bulk", rt.table, rows, rt.offset,
                                            DEFAULT_MAX_RETRIES,
                                            DEFAULT_DELAY, "rt_after_bulk")
                     /\ pc' = RetryEnterPc(DEFAULT_MAX_RETRIES,
                                           "rt_after_bulk")
                     /\ UNCHANGED <<fb, hist>>
                ELSE /\ rt' = [rt EXCEPT !.rows = rows,
                                         !.offset = RetransferNextOffset(@)]
                     /\ retry' = IdleRetry
                     /\ pc' = "rt_loop"
                     /\ UNCHANGED <<fb, hist>>
       ELSE /\ RTCatch(retry.error, hist)
            /\ retry' = IdleRetry
    /\ UNCHANGED <<dbStatic, tgt, tgtDef, backup, td, tt, fx, fs>>

\* after the bulk load: count the window, report and move on, or the catch
RTAfterBulk ==
    /\ pc = "rt_after_bulk"
    /\ retry' = IdleRetry
    /\ IF retry.outcome = "returned"
       THEN LET inserted == AddInserted(rt.inserted, rt.rows)
            IN  /\ rt' = [rt EXCEPT !.inserted = inserted,
                                    !.offset = RetransferNextOffset(@),
                                    !.reports =
                                        RetransferReports(@, inserted,
                                                          rt.total)]
                /\ pc' = "rt_loop"
                /\ UNCHANGED <<fb, hist>>
       ELSE RTCatch(retry.error,
                    [hist EXCEPT !.rejected =
                         Append(@, [offset |-> rt.offset,
                                    error |-> retry.error])])
    /\ UNCHANGED <<dbStatic, tgt, tgtDef, backup, td, tt, fx, fs>>

\* back from transferBatchIndividually, still in the catch of the window:
\* insertedCount += successCount; offset += BATCH_SIZE.  An error of the
\* fallback leaves through the outer catch.
RTAfterFallback ==
    /\ pc = "rt_after_fb"
    /\ IF fb.outcome = "returned"
       THEN /\ rt' = [rt EXCEPT !.inserted = AddSuccessCount(@, fb.result),
                                !.offset = RetransferNextOffset(@)]
            /\ hist' = [hist EXCEPT !.successCounts = Append(@, fb.result)]
            /\ pc' = "rt_loop"
       ELSE /\ RTRaise(fb.error)
            /\ UNCHANGED hist
    /\ fb' = IdleFB
    /\ UNCHANGED <<dbStatic, tgt, tgtDef, backup, retry, td, tt, fx, fs>>

(***************************************************************************)
(* fixer.js: fixTableStructure                                             *)
(***************************************************************************)
\* no [<table>_backup] table: a marker that is no sequence of rows
NoBackup == <<-1>>

IdleFS == [table |-> "none", outcome |-> "idle", error |-> NoError]

\* catch (error) { console.error(...); throw error; }
FSRaise(error) ==
    /\ fs' = [fs EXCEPT !.outcome = "threw", !.error = error]
    /\ pc' = "fx_after_fs"

\* getTableSchema of the source and of the target
FSGetSchemas ==
    /\ pc = "fs_schema"
    /\ \/ /\ pc' = "fs_drop_backup"
          /\ UNCHANGED fs
       \/ \E e \in ErrorMessages : FSRaise(e)
    /\ UNCHANGED <<dbStatic, tgt, tgtDef, backup, retry, td, tt, fx, rt, fb, hist>>

\* DROP TABLE IF EXISTS [table_backup]
FSDropBackup ==
    /\ pc = "fs_drop_backup"
    /\ \/ /\ backup' = [backup EXCEPT ![fs.table] = NoBackup]
          /\ pc' = "fs_backup"
          /\ UNCHANGED fs
       \/ /\ \E e \in ErrorMessages : FSRaise(e)
          /\ UNCHANGED backup
    /\ UNCHANGED <<dbInputs, tgt, tgtDef, retry, td, tt, fx, rt, fb, hist>>
    /\ stmts' = Issued(stmts, "DROP BACKUP", fs.table)

\* a side table that is created empty
SelectedIntoNothing(rows) == <<>>

\* the rows that SELECT * INTO copies
SelectedInto(rows) == rows

\* SELECT * INTO [table_backup] FROM [table]
FSBackup ==
    /\ pc = "fs_backup"
    /\ \/ /\ tgtDef[fs.table] # "absent"
          /\ backup' = [backup EXCEPT ![fs.table] = SelectedInto(tgt[fs.table])]
          /\ pc' = "fs_drop"
          /\ UNCHANGED fs
       \/ /\ \E e \in ErrorMessages : FSRaise(e)
          /\ UNCHANGED backup
    /\ UNCHANGED <<dbInputs, tgt, tgtDef, retry, td, tt, fx, rt, fb, hist>>
    /\ stmts' = Issued(stmts, "SELECT INTO BACKUP", fs.table)

\* DROP TABLE [table]
FSDropTable ==
    /\ pc = "fs_drop"
    /\ \/ /\ tgtDef[fs.table] # "absent"
          /\ tgtDef' = [tgtDef EXCEPT ![fs.table] = "absent"]
          /\ tgt' = [tgt EXCEPT ![fs.table] = <<>>]
          /\ pc' = "fs_create"
          /\ UNCHANGED fs
       \/ /\ \E e \in ErrorMessages : FSRaise(e)
          /\ UNCHANGED <<tgt, tgtDef>>
    /\ UNCHANGED <<dbInputs, backup, retry, td, tt, fx, rt, fb, hist>>
    /\ stmts' = Issued(stmts, "DROP", fs.table)

\* CREATE TABLE [table] (...) from the source schema, and return true
FSCreateTable ==
    /\ pc = "fs_create"
    /\ \/ /\ tgtDef[fs.table] = "absent"
          /\ tgtDef' = [tgtDef EXCEPT ![fs.table] = "same"]
          /\ fs' = [fs EXCEPT !.outcome = "returned"]
          /\ pc' = "fx_after_fs"
       \/ /\ \E e \in ErrorMessages : FSRaise(e)
          /\ UNCHANGED tgtDef
    /\ UNCHANGED <<dbInputs, tgt, backup, retry, td, tt, fx, rt, fb, hist>>
    /\ stmts' = Issued(stmts, "CREATE", fs.table)

(***************************************************************************)
(* fixer.js: fixDatabaseIssues                                             *)
(***************************************************************************)
IdleFX ==
    [tables |-> <<>>, listed |-> FALSE, idx |-> 0, verified |-> <<>>,
     problematic |-> <<>>, i |-> 0,
     repaired |-> <<>>, finalResults |-> <<>>, fixedCount |-> 0,
     summary |-> FALSE, outcome |-> "idle", error |-> NoError,
     result |-> [success |-> FALSE, fixed |-> -1, remaining |-> -1,
                 results |-> <<>>]]

\* every table kept for repair, whatever its verification says
IsProblematicAlways(verification) == TRUE

\* if (verification.status !== 'MATCH') problematicTables.push(...)
IsProblematic(verification) == verification.status # "MATCH"

\* success as soon as one table was fixed
OverallSuccessAny(fixedCount, problematicCount) == fixedCount > 0

\* const overallSuccess = fixedCount === problematicTables.length
OverallSuccess(fixedCount, problematicCount) == fixedCount = problematicCount

\* every problematic table taken to have a STRUCTURE issue
HasStructureIssuesAlways(verification) == TRUE

\* verification.issues.some(issue => issue.type === 'STRUCTURE')
HasStructureIssues(verification) == HasIssue(verification, {"STRUCTURE"})

HasDataIssues(verification) ==
    HasIssue(verification, {"ROW_COUNT", "DATA_CHECKSUM"})

\* the outer catch (error) { console.error(...); throw error; } and the
\* finally that closes the pools
FXRaise(error) ==
    /\ fx' = [fx EXCEPT !.outcome = "threw", !.error = error]
    /\ pc' = "done"

\* an error of fixTableStructure or retransferTableData in the repair loop:
\* nothing in the loop catches it
FXRepairFailed(error) == FXRaise(error)

\* calling retransferTableData(sourcePool, targetPool, table)
EnterRetransfer(table) ==
    /\ rt' = [IdleRT EXCEPT !.table = table, !.outcome = "running"]
    /\ hist' = NoHist
    /\ pc' = "rt_delete"

\* connecting and const tables = await getTableList(sourcePool)
FXConnectAndList ==
    /\ pc = "start"
    /\ main = "fix"
    /\ \/ /\ fx' = [IdleFX EXCEPT !.tables = tableList, !.listed = TRUE,
                                   !.outcome = "running"]
          /\ pc' = "fx_verify"
       \/ \E e \in ErrorMessages :
             /\ fx' = [IdleFX EXCEPT !.outcome = "threw", !.error = e]
             /\ pc' = "done"
    /\ UNCHANGED <<dbStatic, tgt, tgtDef, backup, retry, td, tt, fs, rt, fb, hist>>

\* the first pass: verifyTableData of the next table, kept if not MATCH
FXVerifyNext ==
    /\ pc = "fx_verify"
    /\ IF fx.idx < Len(fx.tables)
       THEN \E failed \in BOOLEAN :
              LET table == fx.tables[fx.idx + 1]
                  verification == VerifyTableData(table, failed)
              IN  /\ fx' = [fx EXCEPT
                               !.idx = @ + 1,
                               !.verified =
                                   Append(@, [table |-> table,
                                              status |->
                                                  verification.status]),
                               !.problematic =
                                   IF IsProblematic(verification)
                                   THEN Append(@, [table |-> table,
                                                   verification |->
                                                       verification])
                                   ELSE @]
                  /\ pc' = "fx_verify"
       ELSE /\ pc' = "fx_fix"
            /\ UNCHANGED fx
    /\ UNCHANGED <<dbStatic, tgt, tgtDef, backup, retry, td, tt, fs, rt, fb, hist>>

\* the repair loop: the next problematic table and its first repair call,
\* or the end of the loop
FXFixNext ==
    /\ pc = "fx_fix"
    /\ IF fx.i < Len(fx.problematic)
       THEN LET entry == fx.problematic[fx.i + 1]
            IN  /\ IF HasStructureIssues(entry.verification)
                   THEN /\ fs' = [IdleFS EXCEPT !.table = entry.table,
                                                !.outcome = "running"]
                        /\ pc' = "fs_schema"
                        /\ fx' = [fx EXCEPT !.repaired =
                                                Append(@, entry.table)]
                        /\ UNCHANGED <<rt, hist>>
                   ELSE IF HasDataIssues(entry.verification)
                   THEN /\ EnterRetransfer(entry.table)
                        /\ fx' = [fx EXCEPT !.repaired =
                                                Append(@, entry.table)]
                        /\ UNCHANGED fs
                   ELSE /\ fx' = [fx EXCEPT !.i = @ + 1,
                                            !.repaired =
                                                Append(@, entry.table)]
                        /\ pc' = "fx_fix"
                        /\ UNCHANGED <<fs, rt, hist>>
       ELSE /\ pc' = "fx_final"
            /\ UNCHANGED <<fx, fs, rt, hist>>
    /\ UNCHANGED <<dbStatic, tgt, tgtDef, backup, retry, td, tt, fb>>

\* back from fixTableStructure
FXAfterFixStructure ==
    /\ pc = "fx_after_fs"
    /\ LET entry == fx.problematic[fx.i + 1]
       IN  IF fs.outcome = "threw"
           THEN /\ FXRepairFailed(fs.error)
                /\ UNCHANGED <<rt, hist>>
           ELSE IF HasDataIssues(entry.verification)
           THEN /\ EnterRetransfer(entry.table)
                /\ UNCHANGED fx
           ELSE /\ fx' = [fx EXCEPT !.i = @ + 1]
                /\ pc' = "fx_fix"
                /\ UNCHANGED <<rt, hist>>
    /\ fs' = IF fs.outcome = "threw" THEN fs ELSE IdleFS
    /\ UNCHANGED <<dbStatic, tgt, tgtDef, backup, retry, td, tt, fb>>

\* back from retransferTableData
FXAfterRetransfer ==
    /\ pc = "fx_after_rt"
    /\ IF rt.outcome = "threw"
       THEN /\ FXRepairFailed(rt.error)
            /\ UNCHANGED <<rt, hist>>
       ELSE /\ fx' = [fx EXCEPT !.i = @ + 1]
            /\ pc' = "fx_fix"
            /\ rt' = IdleRT
            /\ hist' = NoHist
    /\ UNCHANGED <<dbStatic, tgt, tgtDef, backup, retry, td, tt, fs, fb>>

\* the final pass over the problematic tables, then the summary and the
\* return
FXFinalVerify ==
    /\ pc = "fx_final"
    /\ LET j == Len(fx.finalResults)
       IN  IF j < Len(fx.problematic)
           THEN \E failed \in BOOLEAN :
                  LET verification ==
                          VerifyTableData(fx.problematic[j + 1].table, failed)
                  IN  /\ fx' = [fx EXCEPT
                                   !.finalResults = Append(@, verification),
                                   !.fixedCount =
                                       IF verification.status = "MATCH"
                                       THEN @ + 1 ELSE @]
                      /\ pc' = "fx_final"
           ELSE /\ fx' = [fx EXCEPT
                             !.summary = TRUE,
                             !.outcome = "returned",
                             !.result =
                                 [success |->
                                      OverallSuccess(fx.fixedCount,
                                                     Len(fx.problematic)),
                                  fixed |-> fx.fixedCount,
                                  remaining |->
                                      Len(fx.problematic) - fx.fixedCount,
                                  results |-> fx.finalResults]]
                /\ pc' = "done"
    /\ UNCHANGED <<dbStatic, tgt, tgtDef, backup, retry, td, tt, fs, rt, fb, hist>>

(***************************************************************************)
(* disaster-recovery.js: executeDisasterRecovery, main and the handlers of *)
(* SIGINT and SIGTERM                                                      *)
(***************************************************************************)
\* a pool is "none" before sql.connect resolves, then "open", and "closed"
\* after close(); ops counts the database operations issued, opsAtSignal
\* what it was when a signal arrived; exitCode is -1 while the process runs
IdleProc ==
    [sourcePool |-> "none", targetPool |-> "none", ops |-> 0,
     signal |-> "none", opsAtSignal |-> 0, failed |-> FALSE, exitCode |-> -1,
     validated |-> FALSE, error |-> "none",
     config |-> [missing |-> {},
                 source |-> [server |-> "source-host", database |-> "SourceDb"],
                 target |-> [server |-> "target-host", database |-> "TargetDb"]]]

\* the settings the process can be started with: a required variable may
\* be missing, and the target may be the source's server, database or both
Configurations ==
    [missing : {{}, {"TARGET_DB_PASSWORD"}},
     source : {[server |-> "source-host", database |-> "SourceDb"]},
     target : {[server |-> "target-host", database |-> "TargetDb"],
               [server |-> "source-host", database |-> "TargetDb"],
               [server |-> "source-host", database |-> "SourceDb"]}]

\* every configuration accepted
ValidateConfigurationAlways(config) == TRUE

\* validateConfiguration()
ValidateConfiguration(config) ==
    IF config.missing # {} THEN FALSE
    ELSE IF /\ config.source.server = config.target.server
            /\ config.source.database = config.target.database
    THEN FALSE
    ELSE TRUE

Signals == {"SIGINT", "SIGTERM"}

\* process.exit(130) and process.exit(143)
SignalExitCode(signal) == IF signal = "SIGINT" THEN 130 ELSE 143

\* throw inside executeDisasterRecovery: on to its finally
DRRaise(p) ==
    /\ proc' = [p EXCEPT !.failed = TRUE]
    /\ pc' = "dr_disconnect"

\* if (!this.validateConfiguration()) throw new Error(...)
Validate ==
    /\ pc = "start"
    /\ main = "recover"
    /\ \E config \in Configurations :
          LET p == [proc EXCEPT !.config = config, !.validated = TRUE]
          IN  IF ValidateConfiguration(config)
              THEN /\ proc' = p
                   /\ pc' = "dr_connect_source"
              ELSE DRRaise([p EXCEPT !.error =
                                "Invalid disaster recovery configuration"])
    /\ UNCHANGED <<engineState, call>>

\* connectToSource: sql.connect, then the SELECT @@VERSION query
ConnectToSource ==
    /\ pc = "dr_connect_source"
    /\ \/ /\ proc' = [proc EXCEPT !.sourcePool = "open", !.ops = @ + 1]
          /\ pc' = "dr_connect_target"
       \/ DRRaise(proc)
       \/ DRRaise([proc EXCEPT !.sourcePool = "open", !.ops = @ + 1])
    /\ UNCHANGED <<engineState, call>>

\* connectToTarget
ConnectToTarget ==
    /\ pc = "dr_connect_target"
    /\ \/ /\ proc' = [proc EXCEPT !.targetPool = "open", !.ops = @ + 1]
          /\ pc' = "dr_migrate"
       \/ DRRaise(proc)
       \/ DRRaise([proc EXCEPT !.targetPool = "open", !.ops = @ + 1])
    /\ UNCHANGED <<engineState, call>>

\* performMigration: one more database operation, which returns or raises,
\* or the return of the result
PerformMigration ==
    /\ pc = "dr_migrate"
    /\ \/ /\ proc.ops < 2 + MaxOperations
          /\ \/ /\ proc' = [proc EXCEPT !.ops = @ + 1]
                /\ pc' = "dr_migrate"
             \/ DRRaise([proc EXCEPT !.ops = @ + 1])
       \/ /\ pc' = "dr_disconnect"
          /\ UNCHANGED proc
    /\ UNCHANGED <<engineState, call>>

\* pool.close() of a pool that was set
Closed(pool) == IF pool = "none" THEN "none" ELSE "closed"

\* finally { await this.disconnect(); }: the source pool and then the
\* target pool are closed; an error of close() is logged and ends the
\* method
Disconnect ==
    /\ pc = "dr_disconnect"
    /\ \/ proc' = [proc EXCEPT !.sourcePool = Closed(@),
                                !.targetPool = Closed(@)]
       \/ /\ proc.sourcePool = "open"
          /\ UNCHANGED proc
       \/ /\ proc.targetPool = "open"
          /\ proc' = [proc EXCEPT !.sourcePool = Closed(@)]
    /\ pc' = "dr_exit"
    /\ UNCHANGED <<engineState, call>>

\* main: process.exit(0) after the summary, process.exit(1) in its catch
MainExit ==
    /\ pc = "dr_exit"
    /\ proc' = [proc EXCEPT !.exitCode = IF proc.failed THEN 1 ELSE 0]
    /\ pc' = "done"
    /\ UNCHANGED <<engineState, call>>

\* process.on('SIGINT' / 'SIGTERM', ...): the handler logs and calls
\* process.exit; it runs whenever the process waits for a database call
OnSignal ==
    /\ main = "recover"
    /\ pc # "done"
    /\ \E signal \in Signals :
          proc' = [proc EXCEPT !.signal = signal,
                               !.opsAtSignal = proc.ops,
                               !.exitCode = SignalExitCode(signal)]
    /\ pc' = "done"
    /\ UNCHANGED <<engineState, call>>

\* ---------------------------------------------------------------------
\* restore-db.js: restoreDatabase
\* ---------------------------------------------------------------------

\* the calls of the try block after both pools are connected
RestoreSteps ==
    <<"clearTargetDatabase", "transferData", "transferFunctions",
      "transferViews">>

\* sourcePool = await sql.connect(sourceConfig)
RestoreConnectSource ==
    /\ pc = "start"
    /\ main = "restore"
    /\ \/ /\ proc' = [proc EXCEPT !.sourcePool = "open"]
          /\ pc' = "rs_connect_target"
       \/ /\ proc' = [proc EXCEPT !.failed = TRUE, !.error = "sql.connect"]
          /\ pc' = "rs_catch"
    /\ UNCHANGED <<engineState, call>>

\* targetPool = new sql.ConnectionPool(targetConfig);
\* await targetPool.connect()
RestoreConnectTarget ==
    /\ pc = "rs_connect_target"
    /\ \/ /\ proc' = [proc EXCEPT !.targetPool = "open"]
          /\ pc' = "rs_steps"
       \/ /\ proc' = [proc EXCEPT !.failed = TRUE,
                                   !.error = "targetPool.connect"]
          /\ pc' = "rs_catch"
    /\ UNCHANGED <<engineState, call>>

\* await clearTargetDatabase(targetPool), transferData, transferFunctions,
\* transferViews: each returns or raises
RestoreStep ==
    /\ pc = "rs_steps"
    /\ proc.ops < Len(RestoreSteps)
    /\ \/ /\ proc' = [proc EXCEPT !.ops = @ + 1]
          /\ pc' = IF proc.ops + 1 = Len(RestoreSteps)
                   THEN "rs_finally" ELSE "rs_steps"
       \/ /\ proc' = [proc EXCEPT !.failed = TRUE,
                                   !.error = RestoreSteps[proc.ops + 1]]
          /\ pc' = "rs_catch"
    /\ UNCHANGED <<engineState, call>>

\* catch (error) { console.error(...); process.exit(1); }: the process
\* ends inside the catch block, the finally block is not run
RestoreCatch ==
    /\ pc = "rs_catch"
    /\ proc' = [proc EXCEPT !.exitCode = 1]
    /\ pc' = "done"
    /\ UNCHANGED <<engineState, call>>

\* finally: if (sourcePool) close, if (targetPool) close; the process
\* then ends with nothing left to do
RestoreFinally ==
    /\ pc = "rs_finally"
    /\ \/ proc' = [proc EXCEPT !.sourcePool = Closed(@),
                                !.targetPool = Closed(@), !.exitCode = 0]
       \/ proc' = [proc EXCEPT !.failed = TRUE, !.error = "sourcePool.close",
                                !.exitCode = 1]
       \/ proc' = [proc EXCEPT !.sourcePool = Closed(@), !.failed = TRUE,
                                !.error = "targetPool.close", !.exitCode = 1]
    /\ pc' = "done"
    /\ UNCHANGED <<engineState, call>>

(***************************************************************************)
(* disaster-recovery.js: performMigration, steps 3 and 4, with the config  *)
(* objects of export-db.js and import-db.js                                *)
(***************************************************************************)
\* a variable that process.env does not hold
NotSet == "undefined"

\* recoveryConfig.source and recoveryConfig.target, read from SOURCE_DB_*
\* and TARGET_DB_* when disaster-recovery.js is loaded
RecoverySource == [server |-> "source-host", database |-> "SourceDb"]
RecoveryTarget == [server |-> "target-host", database |-> "TargetDb"]

\* a || b for two strings
OrElse(a, b) == IF a = NotSet THEN b ELSE a

\* export-db.js: const config = {...}, evaluated when the module is loaded
ExportDbConfig(env) ==
    [server |-> OrElse(env.DB_SERVER, "localhost"),
     database |-> env.DB_DATABASE]

\* import-db.js: const config = {...} and importConfig.targetDatabase,
\* evaluated when the module is loaded
ImportDbConfig(env) ==
    [server |-> env.DB_SERVER,
     database |-> env.DB_DATABASE,
     targetDatabase |-> OrElse(env.TARGET_DATABASE, env.DB_DATABASE)]

\* process.env.DB_SERVER = recoveryConfig.source.server; ... DB_DATABASE
ConfigureExport(env) ==
    [env EXCEPT !.DB_SERVER = RecoverySource.server,
                !.DB_DATABASE = RecoverySource.database]

\* process.env.DB_SERVER = recoveryConfig.target.server; ...
\* process.env.TARGET_DATABASE = recoveryConfig.target.database
ConfigureImport(env) ==
    [env EXCEPT !.DB_SERVER = RecoveryTarget.server,
                !.TARGET_DATABASE = RecoveryTarget.database]

\* what the DB_* variables can hold when the process starts
StartEnvironments ==
    [DB_SERVER : {NotSet, "other-host", "source-host"},
     DB_DATABASE : {NotSet, "OtherDb", "SourceDb"},
     TARGET_DATABASE : {NotSet, "TargetDb"}]

\* the process starts: dotenv has filled process.env
MigrationStart ==
    /\ pc = "start"
    /\ main = "migrate"
    /\ \E env \in StartEnvironments :
          call' = [fn |-> "performMigration", env |-> env,
                   exporter |-> [server |-> NotSet, database |-> NotSet],
                   importer |-> [server |-> NotSet, database |-> NotSet,
                                 targetDatabase |-> NotSet]]
    /\ pc' = "pm_export"
    /\ UNCHANGED engine

\* step 3 up to its first await: require('./export-db'), the assignments
\* to process.env, new DatabaseExporter() and exporter.connect(), which
\* calls sql.connect(config)
MigrationExport ==
    /\ pc = "pm_export"
    /\ call' = [call EXCEPT !.exporter = ExportDbConfig(call.env),
                            !.env = ConfigureExport(call.env)]
    /\ pc' = "pm_import"
    /\ UNCHANGED engine

\* step 4 up to its first await: require('./import-db'), the assignments
\* to process.env, new DatabaseImporter() and importDatabase(), which calls
\* sql.connect(config)
MigrationImport ==
    /\ pc = "pm_import"
    /\ call' = [call EXCEPT !.importer = ImportDbConfig(call.env),
                            !.env = ConfigureImport(call.env)]
    /\ pc' = "done"
    /\ UNCHANGED engine

(***************************************************************************)
(* database.js: createTableIfNotExists; fixer.js: generateCreateTableSQL   *)
(***************************************************************************)
\* a nullable catalog number taken as a condition: null and 0 are falsy
Truthy(number) == number # <<>> /\ number[1] # 0

\* the text appended to `[name] type` for the length or the precision
LengthSuffix(col) ==
    IF /\ Truthy(col.CHARACTER_MAXIMUM_LENGTH)
       /\ col.CHARACTER_MAXIMUM_LENGTH[1] > 0
    THEN <<"(">> \o NumberToString(col.CHARACTER_MAXIMUM_LENGTH[1]) \o <<")">>
    ELSE IF col.DATA_TYPE \in {"decimal", "numeric"}
    THEN IF Truthy(col.NUMERIC_PRECISION) /\ col.NUMERIC_SCALE # <<>>
         THEN <<"(">> \o NumberToString(col.NUMERIC_PRECISION[1]) \o <<",">>
                  \o NumberToString(col.NUMERIC_SCALE[1]) \o <<")">>
         ELSE <<>>
    ELSE IF col.DATA_TYPE \in {"varchar", "nvarchar"}
    THEN IF col.CHARACTER_MAXIMUM_LENGTH = <<-1>> THEN <<"(MAX)">>
         ELSE IF ~Truthy(col.CHARACTER_MAXIMUM_LENGTH) THEN <<"(255)">>
         ELSE <<>>
    ELSE <<>>

\* the callback of schema.map: one column definition, as its pieces
ColumnDef(col) ==
    <<"[", col.COLUMN_NAME, "]", " ", col.DATA_TYPE>>
        \o LengthSuffix(col)
        \o (IF col.IS_NULLABLE = "NO" THEN <<" NOT NULL">> ELSE <<>>)

\* Array.prototype.join
RECURSIVE Join(_, _)
Join(parts, separator) ==
    IF parts = <<>> THEN <<>>
    ELSE IF Len(parts) = 1 THEN parts[1]
    ELSE parts[1] \o <<separator>> \o Join(Tail(parts), separator)

\* `CREATE TABLE [${tableName}] (${columns})`
CreateTableQuery(tableName, schema) ==
    <<"CREATE TABLE ", "[", tableName, "]", " (">>
        \o Join([i \in DOMAIN schema |-> ColumnDef(schema[i])], ", ")
        \o <<")">>

\* `CREATE TABLE [${tableName}] (\n    ${columns}\n)`
GenerateCreateTableSQL(tableName, schema) ==
    <<"CREATE TABLE ", "[", tableName, "]", " (\\n    ">>
        \o Join([i \in DOMAIN schema |-> ColumnDef(schema[i])], ",\\n    ")
        \o <<"\\n)">>

\* column descriptors of the catalog: character, binary, exact numeric and
\* integer types, with no length, the length -1 of MAX, or a length
DefinedTypes == {"varchar", "nvarchar", "varbinary", "char", "decimal", "int"}

DefinedLengths == {<<>>, <<-1>>, <<50>>}

DefinedNumerics ==
    {[precision |-> <<>>, scale |-> <<>>],
     [precision |-> <<10>>, scale |-> <<2>>],
     [precision |-> <<10>>, scale |-> <<>>]}

\* the statement that one of the two builders makes for a one-column table
BuildCreateTable ==
    /\ pc = "start"
    /\ main = "define"
    /\ \E type \in DefinedTypes, length \in DefinedLengths,
          numeric \in DefinedNumerics, nullable \in {"YES", "NO"},
          fn \in {"createTableIfNotExists", "generateCreateTableSQL"} :
          LET col == Column("data", type, nullable, length,
                            numeric.precision, numeric.scale)
          IN  call' = [fn |-> fn, column |-> col,
                       statement |->
                           IF fn = "createTableIfNotExists"
                           THEN CreateTableQuery("Customers", <<col>>)
                           ELSE GenerateCreateTableSQL("Customers", <<col>>)]
    /\ pc' = "done"
    /\ UNCHANGED engine

\* ---------------------------------------------------------------------
\* utils.js: sanitizeTableName; database.js: getTableSchema
\* ---------------------------------------------------------------------

\* the characters \w matches, among those the names below are made of
WordChars == {"a", "b", "1", "_"}

\* tableName.replace(/[^\w]/g, '')
RECURSIVE ReplaceNonWord(_)
ReplaceNonWord(chars) ==
    IF chars = <<>> THEN <<>>
    ELSE IF Head(chars) \in WordChars
    THEN <<Head(chars)>> \o ReplaceNonWord(Tail(chars))
    ELSE ReplaceNonWord(Tail(chars))

\* sanitizeTableName(tableName), for a string
SanitizeTableName(tableName) ==
    IF tableName = <<>>
    THEN [kind |-> "threw",
          message |-> "Table name must be a non-empty string"]
    ELSE IF ReplaceNonWord(tableName) = <<>>
    THEN [kind |-> "threw",
          message |-> "Table name contains no valid characters"]
    ELSE [kind |-> "returned", value |-> ReplaceNonWord(tableName)]

\* the table the statement's WHERE TABLE_NAME = '...' selects
SchemaLookup(tableName) == SanitizeTableName(tableName)

\* the table [${tableName}] names in COUNT, SELECT, DELETE, CREATE TABLE
\* and the bulk insert
Addressed(tableName) == tableName

\* names getTableList can return: a table of dbo may be named with any
\* character
ListedNames ==
    {<<"a", "b">>, <<"a", "_", "1">>, <<"a", " ", "b">>, <<"a", "-", "b">>,
     <<"b", "$">>, <<"-">>}

\* getTableSchema(pool, tableName) and then the statements of
\* transferTableData for the same table
GetTableSchema ==
    /\ pc = "start"
    /\ main = "define"
    /\ \E tableName \in ListedNames :
          call' = [fn |-> "getTableSchema", tableName |-> tableName,
                   lookup |-> SchemaLookup(tableName),
                   addressed |-> Addressed(tableName)]
    /\ pc' = "done"
    /\ UNCHANGED engine

(***************************************************************************)
(* The databases at the start of a run                                     *)
(***************************************************************************)
TableSet(k) == {TableNames[i] : i \in 1..k}

RECURSIVE SumTo(_, _)
SumTo(counts, k) ==
    IF k = 0 THEN 0 ELSE counts[TableNames[k]] + SumTo(counts, k - 1)

\* the rows of the k-th table: rows are numbered through the database
SourceRows(counts, k) ==
    [i \in 1..counts[TableNames[k]] |-> SumTo(counts, k - 1) + i]

\* a row that no source table holds
StaleRow == MaxRows + 1

\* what a target table can look like before transferData: not there, empty
\* or left with an old row
TransferTargets(rows) ==
    {[def |-> "absent", rows |-> <<>>],
     [def |-> "same", rows |-> <<>>],
     [def |-> "same", rows |-> <<StaleRow>>]}

\* what a target table can look like before fixDatabaseIssues
FixTargets(rows) ==
    {[def |-> "same", rows |-> rows],
     [def |-> "same",
      rows |-> <<StaleRow>> \o (IF rows = <<>> THEN rows ELSE Tail(rows))],
     [def |-> "diff", rows |-> rows],
     [def |-> "diff", rows |-> <<>>],
     [def |-> "absent", rows |-> <<>>]}

Targets(m, rows) == IF m = "transfer" THEN TransferTargets(rows)
                    ELSE FixTargets(rows)

TableIndex(t) == CHOOSE i \in DOMAIN TableNames : TableNames[i] = t

Init ==
    /\ main \in {"retry", "transfer", "fix", "values", "compare", "verify",
                "recover", "define", "migrate", "restore"}
    /\ pc = "start"
    /\ \E k \in 0..MaxTables :
          /\ main \notin {"transfer", "fix"} => k = 0
          /\ tableList = SubSeq(TableNames, 1, k)
          /\ \E counts \in [TableSet(k) -> 0..MaxRows] :
                /\ SumTo(counts, k) <= MaxRows
                /\ src = [t \in TableSet(k) |->
                             SourceRows(counts, TableIndex(t))]
          /\ \E target \in [TableSet(k) ->
                     UNION {Targets(main, src[t]) : t \in TableSet(k)}] :
                /\ \A t \in TableSet(k) : target[t] \in Targets(main, src[t])
                /\ tgt = [t \in TableSet(k) |-> target[t].rows]
                /\ tgtDef = [t \in TableSet(k) |-> target[t].def]
          /\ backup = [t \in TableSet(k) |-> NoBackup]
    /\ tgt0 = tgt
    /\ retry = IdleRetry
    /\ td = IdleTD
    /\ tt = IdleTT
    /\ fx = IdleFX
    /\ fs = IdleFS
    /\ rt = IdleRT
    /\ fb = IdleFB
    /\ hist = NoHist
    /\ call = NoCall
    /\ stmts = <<>>
    /\ proc = IdleProc

Next ==
    \/ CallExecuteWithRetry
    \/ FormatRowValue
    \/ CompareStructures
    \/ VerifyOneTable
    \/ RetryAttempt
    \/ RetryWait
    \/ TDGetTableList
    \/ TDNextTable
    \/ TDAfterTable
    \/ TTGetSchema
    \/ TTCreateTable
    \/ TTCount
    \/ TTFetch
    \/ TTAfterBulk
    \/ TTFinish
    \/ FXConnectAndList
    \/ FXVerifyNext
    \/ FXFixNext
    \/ FXAfterFixStructure
    \/ FXAfterRetransfer
    \/ FXFinalVerify
    \/ FSGetSchemas
    \/ FSDropBackup
    \/ FSBackup
    \/ FSDropTable
    \/ FSCreateTable
    \/ RTDelete
    \/ RTGetSchema
    \/ RTCount
    \/ RTLoop
    \/ RTAfterFetch
    \/ RTAfterBulk
    \/ RTAfterFallback
    \/ FBFetch
    \/ FBInsertRow
    \/ Validate
    \/ GetTableSchema
    \/ RestoreConnectSource
    \/ RestoreConnectTarget
    \/ RestoreStep
    \/ RestoreCatch
    \/ RestoreFinally
    \/ ConnectToSource
    \/ ConnectToTarget
    \/ PerformMigration
    \/ Disconnect
    \/ MainExit
    \/ OnSignal
    \/ BuildCreateTable
    \/ MigrationStart
    \/ MigrationExport
    \/ MigrationImport

Spec == Init /\ [][Next]_vars

(***************************************************************************)
(* Properties                                                              *)
(***************************************************************************)
Range(seq) == {seq[i] : i \in DOMAIN seq}

\* the offsets 0, size, 2 * size, ... below total
WindowOffsets(total, size) == [i \in 1..CeilDiv(total, size) |-> (i - 1) * size]

\* how often row occurs in rows
Occurrences(rows, row) == Cardinality({i \in DOMAIN rows : rows[i] = row})

TTReturned == pc = "td_after" /\ tt.outcome = "returned"
RTReturned == pc = "fx_after_rt" /\ rt.outcome = "returned"
FBReturned == pc = "rt_after_fb" /\ fb.outcome = "returned"

\* C1: executeWithRetry with maxRetries >= 1 whose operation fails k <
\* maxRetries times and then succeeds returns the operation's value after
\* exactly k + 1 invocations and exactly k waits of delay, 2 * delay, ...,
\* delay * 2^(k-1), and the operation is not invoked again after the success.
C1_RetryReturnsAfterKFailures ==
    /\ []((retry.outcome = "returned" /\ retry.max >= 1) =>
            LET k == retry.failures
            IN  /\ k < retry.max
                /\ retry.value = retry.opValue
                /\ retry.calls = k + 1
                /\ retry.waits = [i \in 1..k |-> retry.delay0 * Pow2(i - 1)])
    /\ [][retry.outcome = "returned" => retry'.calls # retry.calls + 1]_vars

C1_Witness ==
    /\ main = "retry"
    /\ retry.outcome = "returned"
    /\ retry.max = 3
    /\ retry.failures = 2
    /\ retry.waits = <<DEFAULT_DELAY, 2 * DEFAULT_DELAY>>

\* C2: executeWithRetry with maxRetries >= 1 whose operation fails on every
\* attempt invokes it exactly maxRetries times, raises the error of the last
\* attempt after exactly maxRetries - 1 waits, and neither waits nor invokes
\* the operation after the last failure.
C2_RetryRaisesLastError ==
    /\ [](retry.outcome = "threw" =>
            /\ retry.max >= 1
            /\ retry.calls = retry.max
            /\ retry.failures = retry.max
            /\ retry.error = retry.opError
            /\ retry.error \in ErrorMessages
            /\ Len(retry.waits) = retry.max - 1)
    /\ [][retry.outcome = "threw" =>
            /\ retry'.calls # retry.calls + 1
            /\ Len(retry'.waits) # Len(retry.waits) + 1]_vars

C2_Witness ==
    /\ main = "retry"
    /\ retry.outcome = "threw"
    /\ retry.max = 3
    /\ retry.calls = 3

\* C3: when transferTableData gives up the bulk load of a window, the
\* Row-Level Fallback is invoked for that window and every later window of
\* the table is still fetched.
C3_BulkFailureFallsBackAndContinues ==
    (TTReturned /\ hist.rejected # <<>>) =>
        /\ hist.fallbacks = [i \in DOMAIN hist.rejected |->
                                hist.rejected[i].offset]
        /\ hist.fetches = WindowOffsets(tt.total, BATCH_SIZE)

DataErrorPhrases == {"OLE DB", "invalid data", "Invalid column type"}

HasDataErrorPhrase(message) ==
    \E phrase \in DataErrorPhrases : Includes(message, phrase)

C5_TransferCopiesEveryRowOnce ==
    (TTReturned /\ tgt0[tt.table] = <<>> /\ hist.bulkFails = 0) =>
        LET N == Len(src[tt.table])
        IN  /\ \A row \in Range(src[tt.table]) :
                  Occurrences(tgt[tt.table], row) = 1
            /\ Len(tgt[tt.table]) = N
            /\ tt.result = [transferred |-> N, total |-> N]

C5_Witness ==
    /\ TTReturned
    /\ tgt0[tt.table] = <<>>
    /\ hist.bulkFails = 0
    /\ Len(src[tt.table]) > BATCH_SIZE
    /\ tgt[tt.table] = src[tt.table]

\* C6: for a table of N > 0 rows and no bulk failure transferTableData makes
\* exactly ceil(N / BATCH_SIZE) bulk-load calls (25 for 250,000 rows in
\* windows of 10,000), and the last window's progress report and the
\* completion line both show N/N and 100.0%.
C6_BulkCallsAndFinalProgress ==
    /\ CeilDiv(250000, 10000) = 25
    /\ (TTReturned /\ tt.total > 0 /\ hist.bulkFails = 0) =>
          LET N == Len(src[tt.table])
              full == [current |-> ToLocaleString(N),
                       total |-> ToLocaleString(N),
                       percentage |-> [int |-> 100, frac |-> 0]]
              n == Len(tt.reports)
          IN  /\ hist.bulkCalls = CeilDiv(N, BATCH_SIZE)
              /\ n = hist.bulkCalls + 1
              /\ tt.reports[n] = full
              /\ tt.reports[n - 1] = full

C6_Witness ==
    /\ TTReturned
    /\ hist.bulkFails = 0
    /\ tt.total = BATCH_SIZE + 1
    /\ hist.bulkCalls = 2

\* C7: when the source count query returns 0, transferTableData returns
\* {transferred: 0, total: 0} and retransferTableData returns normally, and
\* neither issues a window query, a bulk load or a single-row insert.
C7_EmptyTableIsNoFailure ==
    /\ (tt.counted /\ tt.total = 0) =>
          /\ tt.outcome = "returned"
          /\ tt.result = [transferred |-> 0, total |-> 0]
          /\ hist.fetches = <<>> /\ hist.bulkCalls = 0 /\ hist.inserts = <<>>
    /\ (rt.counted /\ rt.total = 0) =>
          /\ rt.outcome = "returned"
          /\ pc = "fx_after_rt"
          /\ hist.fetches = <<>> /\ hist.bulkCalls = 0 /\ hist.inserts = <<>>

C7_Witness ==
    /\ TTReturned
    /\ tt.counted
    /\ tt.total = 0
    /\ src[tt.table] = <<>>

\* C8: once getTableList has returned, transferData attempts every listed
\* table exactly once and in list order whether or not transferTableData
\* raises for some of them, and it returns normally.
C8_TransferDataIsolatesTables ==
    td.listed =>
        /\ td.outcome # "threw"
        /\ td.tables = tableList
        /\ td.attempted = SubSeq(td.tables, 1, td.idx)
        /\ Range(td.caught) \subseteq Range(td.attempted)
        /\ pc = "done" => (td.outcome = "returned" /\ td.attempted = td.tables)

C8_Witness ==
    /\ pc = "done"
    /\ td.outcome = "returned"
    /\ Len(td.tables) = 2
    /\ td.caught = <<td.tables[1]>>
    /\ td.attempted = td.tables

\* C9: in fixDatabaseIssues an error of fixTableStructure or
\* retransferTableData for one problematic table does not keep the other
\* problematic tables from being repaired nor the final verification and
\* the summary from running.
C9_RepairErrorsAreIsolated ==
    (main = "fix" /\ pc = "done" /\ fx.listed) =>
        /\ fx.outcome = "returned"
        /\ fx.summary
        /\ fx.repaired = [i \in DOMAIN fx.problematic |->
                             fx.problematic[i].table]
        /\ Len(fx.finalResults) = Len(fx.problematic)

\* C10: transferBatchIndividually attempts one INSERT for every row of its
\* window, in order; a failing INSERT is skipped, is not raised and does not
\* keep the later rows from being attempted; the value returned is the
\* number of rows whose INSERT succeeded, which are the rows added to the
\* target.
C10_FallbackFinishesItsBatch ==
    LET rows == [i \in DOMAIN fb.attempts |-> fb.attempts[i].row]
        succeeded == {i \in DOMAIN fb.attempts : fb.attempts[i].ok}
    IN  /\ fb.outcome = "threw" => fb.attempts = <<>>
        /\ fb.outcome # "idle" =>
              /\ rows = SubSeq(fb.rows, 1, Len(rows))
              /\ fb.successCount = Cardinality(succeeded)
              /\ Len(tgt[fb.table]) = Len(fb.before) + Cardinality(succeeded)
        /\ FBReturned =>
              /\ rows = FetchWindow(src[fb.table], fb.offset, fb.batchSize)
              /\ fb.result = Cardinality(succeeded)
              /\ \A i \in succeeded :
                    Occurrences(tgt[fb.table], rows[i])
                        = Occurrences(fb.before, rows[i]) + 1

C10_Witness ==
    /\ FBReturned
    /\ Len(fb.attempts) = 2
    /\ ~fb.attempts[1].ok
    /\ fb.attempts[2].ok
    /\ fb.result = 1

\* the sum of a sequence of numbers
RECURSIVE SeqSum(_)
SeqSum(seq) == IF seq = <<>> THEN 0 ELSE Head(seq) + SeqSum(Tail(seq))

\* retransferTableData has ended, one way or the other, after every bulk
\* load it attempted was given up by executeWithRetry and no window query
\* raised
EveryBulkLoadFailed ==
    /\ pc = "fx_after_rt"
    /\ rt.counted
    /\ rt.total > 0
    /\ hist.fetchFails = 0
    /\ hist.bulkCalls > 0
    /\ hist.bulkFails = hist.bulkCalls

\* what C11 promises of such a run
FallbackPerWindowAndCount ==
    /\ rt.outcome = "returned"
    /\ hist.fallbacks = WindowOffsets(rt.total, RETRANSFER_BATCH_SIZE)
    /\ Len(hist.successCounts) = Len(hist.fallbacks)
    /\ rt.inserted = SeqSum(hist.successCounts)
    /\ rt.inserted = Len(tgt[rt.table])
    /\ rt.inserted <= CountRows(src[rt.table])

DateTimeFamily ==
    {"date", "time", "datetime", "datetime2", "smalldatetime",
     "datetimeoffset"}

\* chars is a quoted 'YYYY-MM-DD HH:MM:SS'
IsDateTimeLiteral(chars) ==
    /\ Len(chars) = 21
    /\ chars[1] = "'"
    /\ chars[21] = "'"
    /\ \A i \in {2, 3, 4, 5, 7, 8, 10, 11, 13, 14, 16, 17, 19, 20} :
           IsDigit(chars[i])
    /\ chars[6] = "-"
    /\ chars[9] = "-"
    /\ chars[12] = " "
    /\ chars[15] = ":"
    /\ chars[18] = ":"

\* the callback was applied to a value that is a date, or a text, of a
\* column of the date and time family
TemporalValueFormatted ==
    /\ call.fn = "formatValue"
    /\ call.column # NoColumn
    /\ ToLowerCase(call.column.DATA_TYPE) \in DateTimeFamily
    /\ \/ call.value.kind = "Date" /\ ~IsNaNTime(call.value)
       \/ call.value.kind = "string"

\* C12 as stated: in the fallback, a non-null value of a column of a
\* date/time family type (date, time, datetime, datetime2, smalldatetime,
\* datetimeoffset) is emitted as a quoted 'YYYY-MM-DD HH:MM:SS' literal, and
\* a string that does not parse as a date is emitted as NULL.
C12_TemporalValuesAreLiterals ==
    TemporalValueFormatted =>
        IF /\ call.value.kind = "string"
           /\ IsNaNTime(DateFromString(call.value.chars))
        THEN call.result = SqlNull
        ELSE /\ call.result.kind = "string"
             /\ IsDateTimeLiteral(call.result.chars)

\* the text a SQL string literal's body stands for: a doubled quote is one
\* quote, a single one ends the literal
RECURSIVE LiteralText(_)
LiteralText(chars) ==
    IF chars = <<>> THEN <<>>
    ELSE IF Head(chars) # "'"
    THEN <<Head(chars)>> \o LiteralText(Tail(chars))
    ELSE IF Len(chars) >= 2 /\ chars[2] = "'"
    THEN <<"'">> \o LiteralText(SubSeq(chars, 3, Len(chars)))
    ELSE <<"end of literal">> \o LiteralText(Tail(chars))

HexValue(c) == (CHOOSE i \in DOMAIN HexChars : HexChars[i] = c) - 1

\* chars is 0x followed by two hex digits for each byte
IsHexOf(chars, bytes) ==
    /\ Len(chars) = 2 + 2 * Len(bytes)
    /\ chars[1] = "0"
    /\ chars[2] = "x"
    /\ \A i \in DOMAIN bytes :
           16 * HexValue(chars[2 * i + 1]) + HexValue(chars[2 * i + 2])
               = bytes[i]

\* C13: in the fallback, per value and in this order: null or undefined
\* gives NULL, in a temporal column too; otherwise, outside the temporal
\* columns, a string gives the string in quotes with every quote doubled, a
\* boolean gives 1 or 0, a Buffer gives 0x and its hex digits, and any
\* other value is passed through unchanged.
C13_ValuePrecedence ==
    call.fn = "formatValue" =>
        LET value == call.value
            result == call.result
            temporal == /\ call.column # NoColumn
                        /\ ToLowerCase(call.column.DATA_TYPE)
                               \in TemporalTypes
        IN  CASE value.kind \in {"null", "undefined"} ->
                    result = JsString(<<"N", "U", "L", "L">>)
              [] value.kind \notin {"null", "undefined"} /\ temporal -> TRUE
              [] value.kind = "string" /\ ~temporal ->
                    /\ result.kind = "string"
                    /\ Len(result.chars) >= 2
                    /\ result.chars[1] = "'"
                    /\ result.chars[Len(result.chars)] = "'"
                    /\ LiteralText(SubSeq(result.chars, 2,
                                          Len(result.chars) - 1))
                           = value.chars
              [] value.kind = "boolean" /\ ~temporal ->
                    result = JsString(IF value.b THEN <<"1">> ELSE <<"0">>)
              [] value.kind = "Buffer" /\ ~temporal ->
                    /\ result.kind = "string"
                    /\ IsHexOf(result.chars, value.bytes)
              [] OTHER -> result = value

\* O'B'' in a varchar column
C13_Witness ==
    /\ call.fn = "formatValue"
    /\ call.column # NoColumn
    /\ call.column.DATA_TYPE = "varchar"
    /\ call.value = JsString(<<"O", "'", "B", "'", "'">>)
    /\ call.result
           = JsString(<<"'", "O", "'", "'", "B", "'", "'", "'", "'", "'">>)

CompareReturned ==
    call.fn = "compareTableStructure" /\ call.outcome = "returned"

ColumnNames(schema) == {schema[i].COLUMN_NAME : i \in DOMAIN schema}

\* the column of that name
ColumnNamed(schema, colName) ==
    CHOOSE col \in Range(schema) : col.COLUMN_NAME = colName

ColumnIndex(schema, colName) ==
    CHOOSE i \in DOMAIN schema : schema[i].COLUMN_NAME = colName

\* the attributes compareTableStructure reports, by the name of the report
MismatchKinds == <<"type mismatch", "nullable mismatch", "length mismatch">>

AttributeOf(col, kind) ==
    CASE kind = "type mismatch" -> <<col.DATA_TYPE>>
      [] kind = "nullable mismatch" -> <<col.IS_NULLABLE>>
      [] kind = "length mismatch" -> <<col.CHARACTER_MAXIMUM_LENGTH>>

\* the reported attributes in which the two sides' column colName differs
DifferingKinds(sourceSchema, targetSchema, colName) ==
    {kind \in Range(MismatchKinds) :
        AttributeOf(ColumnNamed(sourceSchema, colName), kind)
            # AttributeOf(ColumnNamed(targetSchema, colName), kind)}

\* C14 as stated: compareTableStructure returns an empty list if and only
\* if both sides have the same set of column names and every shared column
\* has the same type name, nullability, character length, numeric precision
\* and numeric scale.
C14_EmptyIffStructurallyEqual ==
    CompareReturned =>
        (call.differences = <<>>
            <=> /\ ColumnNames(call.sourceSchema)
                       = ColumnNames(call.targetSchema)
                /\ \A colName \in ColumnNames(call.sourceSchema) :
                       ColumnNamed(call.sourceSchema, colName)
                           = ColumnNamed(call.targetSchema, colName))

\* name, type, nullability and character length of the columns, as a set
ComparedColumns(schema) ==
    {[name |-> schema[i].COLUMN_NAME, type |-> schema[i].DATA_TYPE,
      nullable |-> schema[i].IS_NULLABLE,
      length |-> schema[i].CHARACTER_MAXIMUM_LENGTH] : i \in DOMAIN schema}

\* C15: for two schemas with the same columns, types, nullability and
\* character lengths, compareTableStructure returns the empty list in
\* whatever order either catalog lists the columns.
C15_OrderOfColumnsIsIrrelevant ==
    (/\ CompareReturned
     /\ ComparedColumns(call.sourceSchema) = ComparedColumns(call.targetSchema))
        => call.differences = <<>>

\* two columns, listed in opposite orders
C15_Witness ==
    /\ CompareReturned
    /\ Len(call.sourceSchema) = 2
    /\ call.targetSchema = <<call.sourceSchema[2], call.sourceSchema[1]>>
    /\ call.differences = <<>>

\* the two schemas have the same column names and differ in one reported
\* attribute of one column
OneAttributeDiffers ==
    /\ CompareReturned
    /\ ColumnNames(call.sourceSchema) = ColumnNames(call.targetSchema)
    /\ Cardinality({colName \in ColumnNames(call.sourceSchema) :
           DifferingKinds(call.sourceSchema, call.targetSchema, colName)
               # {}}) = 1
    /\ \A colName \in ColumnNames(call.sourceSchema) :
           Cardinality(DifferingKinds(call.sourceSchema, call.targetSchema,
                                      colName)) <= 1

\* C16: if the two schemas are the same but for one column that differs in
\* one of type, nullability and character length, compareTableStructure
\* returns one difference, which names the column and the attribute and
\* holds both sides' values.
C16_OneDifferenceForOneAttribute ==
    OneAttributeDiffers =>
        /\ Len(call.differences) = 1
        /\ \E colName \in ColumnNames(call.sourceSchema) :
              \E kind \in DifferingKinds(call.sourceSchema,
                                         call.targetSchema, colName) :
                 /\ call.differences[1].kind = kind
                 /\ call.differences[1].column = colName
                 /\ <<call.differences[1].source>>
                        = AttributeOf(ColumnNamed(call.sourceSchema, colName),
                                      kind)
                 /\ <<call.differences[1].target>>
                        = AttributeOf(ColumnNamed(call.targetSchema, colName),
                                      kind)

\* varchar(50) against varchar(100), the other column equal
C16_Witness ==
    /\ OneAttributeDiffers
    /\ Len(call.sourceSchema) = 2
    /\ call.differences
           = <<[kind |-> "length mismatch", column |-> "name",
                source |-> <<50>>, target |-> <<100>>]>>

IsMismatchEntry(difference) == difference.kind \in Range(MismatchKinds)

\* the group of an entry in the order C17 states
GroupOf(difference) ==
    CASE difference.kind = "Column count mismatch" -> 0
      [] difference.kind = "Missing column in target" -> 1
      [] IsMismatchEntry(difference) -> 2
      [] difference.kind = "Extra column in target" -> 3

\* C17 as stated: the list is ordered, the column-count entry first, then
\* all missing-column entries, then all type, nullable and length mismatch
\* entries, then all extra-column entries; no mismatch entry precedes a
\* missing-column entry.
C17_GroupedByKind ==
    CompareReturned =>
        \A i, j \in DOMAIN call.differences :
            i < j => GroupOf(call.differences[i])
                        <= GroupOf(call.differences[j])

\* the place of an entry in the order of the pushes: the count entry, then
\* the source columns one by one (each either missing, or its type,
\* nullable and length mismatches), then the extra columns of the target
PlaceOf(difference) ==
    CASE difference.kind = "Column count mismatch" -> <<0, 0, 0>>
      [] difference.kind = "Missing column in target" ->
            <<1, ColumnIndex(call.sourceSchema, difference.column), 0>>
      [] IsMismatchEntry(difference) ->
            <<1, ColumnIndex(call.sourceSchema, difference.column),
              CHOOSE k \in DOMAIN MismatchKinds :
                  MismatchKinds[k] = difference.kind>>
      [] difference.kind = "Extra column in target" ->
            <<2, ColumnIndex(call.targetSchema, difference.column), 0>>

Before(a, b) ==
    \/ a[1] < b[1]
    \/ a[1] = b[1] /\ a[2] < b[2]
    \/ a[1] = b[1] /\ a[2] = b[2] /\ a[3] < b[3]

\* C17, amended: the list is ordered, the column-count entry (if any)
\* first, then the entries of the source columns in the source catalog's
\* order, each column giving either its missing-column entry or its type,
\* nullable and length mismatch entries in that order, then the
\* extra-column entries in the target catalog's order.
C17_OrderedBySourceColumn ==
    CompareReturned =>
        \A i, j \in DOMAIN call.differences :
            i < j => Before(PlaceOf(call.differences[i]),
                            PlaceOf(call.differences[j]))

\* a mismatch entry of the first source column before the missing-column
\* entry of the second, and an extra column of the target after both
C17_Witness ==
    /\ CompareReturned
    /\ Len(call.differences) = 3
    /\ IsMismatchEntry(call.differences[1])
    /\ call.differences[2].kind = "Missing column in target"
    /\ call.differences[3].kind = "Extra column in target"

VerifyReturned == call.fn = "verifyTableData"

IssuesOfType(verification, type) ==
    {i \in DOMAIN verification.issues : verification.issues[i].type = type}

StatusAgreesWithIssues(verification) ==
    /\ verification.status \in {"MATCH", "MISMATCH", "ERROR"}
    /\ verification.status = "MATCH" <=> verification.issues = <<>>
    /\ verification.status \in {"MISMATCH", "ERROR"}
           => Len(verification.issues) >= 1

\* C18: for every result of verifyTableData, status is MATCH if and only if
\* the issues list is empty; MISMATCH and ERROR carry at least one issue.
C18_MatchIffNoIssues ==
    /\ VerifyReturned => StatusAgreesWithIssues(call.result)
    /\ \A i \in DOMAIN fx.problematic :
           StatusAgreesWithIssues(fx.problematic[i].verification)
    /\ \A i \in DOMAIN fx.finalResults :
           StatusAgreesWithIssues(fx.finalResults[i])

\* a row count and a checksum issue, status MISMATCH
C18_Witness ==
    /\ VerifyReturned
    /\ call.result.status = "MISMATCH"
    /\ Len(call.result.issues) = 2
    /\ call.result.issues[2].type = "DATA_CHECKSUM"

ChecksumQueriesSent ==
    {i \in DOMAIN call.queries : call.queries[i].query = "checksum"}

NoStructureWithChecksum(verification) ==
    \/ IssuesOfType(verification, "STRUCTURE") = {}
    \/ IssuesOfType(verification, "DATA_CHECKSUM") = {}

\* C19: verifyTableData runs the checksum step only when the structural
\* comparison reported no difference and the source row count is > 0: no
\* result holds both a STRUCTURE and a DATA_CHECKSUM issue, a result holds
\* one STRUCTURE issue per structural difference, and no checksum query is
\* sent to either side when there is a structural difference.
C19_ChecksumOnlyForEqualStructure ==
    /\ VerifyReturned =>
           LET differences ==
                   StructureDifferences(call.sourceSchema, call.targetSchema)
           IN  /\ NoStructureWithChecksum(call.result)
               /\ call.result.status # "ERROR" =>
                      /\ Cardinality(IssuesOfType(call.result, "STRUCTURE"))
                             = Len(differences)
                      /\ \A i \in DOMAIN differences :
                             call.result.issues[i]
                                 = [type |-> "STRUCTURE",
                                    message |-> differences[i]]
               /\ (ChecksumQueriesSent # {} \/ Len(call.queries) > 4) =>
                      /\ differences = <<>>
                      /\ Len(call.sourceRows) > 0
    /\ \A i \in DOMAIN fx.problematic :
           NoStructureWithChecksum(fx.problematic[i].verification)
    /\ \A i \in DOMAIN fx.finalResults :
           NoStructureWithChecksum(fx.finalResults[i])

\* the columns differ and the one row differs: the two catalog and the two
\* count queries, STRUCTURE issues only
C19_Witness ==
    /\ VerifyReturned
    /\ call.result.status = "MISMATCH"
    /\ IssuesOfType(call.result, "STRUCTURE") = DOMAIN call.result.issues
    /\ call.sourceRows = <<1>>
    /\ call.targetRows = <<3>>
    /\ Len(call.queries) = 4

\* a query verifyTableData sent has raised
QueryRaised ==
    \/ call.failAt \in 1..Len(call.queries)
    \/ call.sourceSchema = <<>>
    \/ call.targetSchema = <<>>

IsErrorResult(verification) ==
    /\ verification.status = "ERROR"
    /\ Len(verification.issues) = 1
    /\ verification.issues[1].type = "ERROR"
    /\ verification.rowCount = 0

\* C20: verifyTableData never raises: when a catalog, count or checksum
\* query fails on either side it returns status ERROR with one issue, of
\* type ERROR, without the issues collected before, and rowCount 0; the
\* loop over the tables goes on.
C20_FailedQueryGivesErrorResult ==
    /\ VerifyReturned =>
           /\ call.result.status \in {"MATCH", "MISMATCH", "ERROR"}
           /\ QueryRaised => IsErrorResult(call.result)
           /\ call.result.status = "ERROR" => QueryRaised
    /\ \A i \in DOMAIN fx.problematic :
           fx.problematic[i].verification.status = "ERROR"
               => IsErrorResult(fx.problematic[i].verification)
    /\ \A i \in DOMAIN fx.finalResults :
           fx.finalResults[i].status = "ERROR"
               => IsErrorResult(fx.finalResults[i])

\* the row counts differ and the checksum query of the source raises
C20_Witness ==
    /\ VerifyReturned
    /\ call.failAt = 6
    /\ Len(call.queries) = 6
    /\ Len(call.sourceRows) # Len(call.targetRows)
    /\ IsErrorResult(call.result)

\* verifyTableData was called on its own and none of its queries raised
VerifyCompleted == VerifyReturned /\ ~QueryRaised

\* the rows of the two sides are the same multiset
SameRows(sourceRows, targetRows) ==
    /\ Len(sourceRows) = Len(targetRows)
    /\ \A row \in Range(sourceRows) \cup Range(targetRows) :
           Occurrences(sourceRows, row) = Occurrences(targetRows, row)

\* C21: if the two tables have the same structure and the target holds the
\* same multiset of rows as the source, in whatever order, verifyTableData
\* returns MATCH.
C21_RowOrderIsIrrelevant ==
    (/\ VerifyCompleted
     /\ ComparedColumns(call.sourceSchema) = ComparedColumns(call.targetSchema)
     /\ SameRows(call.sourceRows, call.targetRows))
        => /\ call.result.status = "MATCH"
           /\ call.result.rowCount = Len(call.sourceRows)

\* two rows, in the opposite order on the target; both checksum queries
\* were sent
C21_Witness ==
    /\ VerifyCompleted
    /\ call.sourceRows = <<1, 2>>
    /\ call.targetRows = <<2, 1>>
    /\ Len(call.queries) = 7
    /\ call.result.status = "MATCH"

\* C22: with the same structure and the same non-zero number of rows, a
\* target whose rows are another multiset than the source's gets a
\* DATA_CHECKSUM issue and the status MISMATCH.
C22_DifferentRowsAreReported ==
    (/\ VerifyCompleted
     /\ ComparedColumns(call.sourceSchema) = ComparedColumns(call.targetSchema)
     /\ ChecksumColumns(call.sourceSchema) # <<>>
     /\ Len(call.sourceRows) = Len(call.targetRows)
     /\ Len(call.sourceRows) > 0
     /\ ~SameRows(call.sourceRows, call.targetRows))
        => /\ IssuesOfType(call.result, "DATA_CHECKSUM") # {}
           /\ call.result.status = "MISMATCH"

\* sub occurs in seq as a run of consecutive elements
Contains(seq, sub) ==
    \E i \in 0..(Len(seq) - Len(sub)) :
        \A k \in DOMAIN sub : seq[i + k] = sub[k]

\* the decimal digits of a count below one hundred
CountText(n) ==
    IF n < 10 THEN <<DigitChars[n + 1]>>
    ELSE <<DigitChars[(n \div 10) + 1], DigitChars[(n % 10) + 1]>>

\* C23: when verifyTableData returns its result, it holds exactly one
\* ROW_COUNT issue if the two counts differ, with a message that gives the
\* source count and the target count, and no ROW_COUNT issue if they are
\* equal.
C23_OneRowCountIssueIffCountsDiffer ==
    VerifyCompleted =>
        LET sourceCount == Len(call.sourceRows)
            targetCount == Len(call.targetRows)
            rowCountIssues == IssuesOfType(call.result, "ROW_COUNT")
        IN  IF sourceCount = targetCount
            THEN rowCountIssues = {}
            ELSE /\ Cardinality(rowCountIssues) = 1
                 /\ \A i \in rowCountIssues :
                        /\ Contains(call.result.issues[i].message,
                                    <<"source ">> \o CountText(sourceCount))
                        /\ Contains(call.result.issues[i].message,
                                    <<"target ">> \o CountText(targetCount))

\* two rows on the source, one on the target
C23_Witness ==
    /\ VerifyCompleted
    /\ Len(call.sourceRows) = 2
    /\ Len(call.targetRows) = 1
    /\ Cardinality(IssuesOfType(call.result, "ROW_COUNT")) = 1

\* the places of the statements of some kinds on a table in the log
Places(kinds, table) ==
    {p \in DOMAIN stmts : stmts[p].kind \in kinds /\ stmts[p].table = table}

\* the first-pass entries of fixDatabaseIssues whose verification holds an
\* issue of one of the types
ProblematicWith(types) ==
    {j \in DOMAIN fx.problematic :
        \E i \in DOMAIN fx.problematic[j].verification.issues :
            fx.problematic[j].verification.issues[i].type \in types}

FXReturned == main = "fix" /\ fx.outcome = "returned"

\* the repair loop of fixDatabaseIssues is done with the j-th problematic
\* table
RepairDone(j) == j <= fx.i

\* C24: when fixDatabaseIssues returns, every problematic table with a
\* STRUCTURE issue was dropped and created again and then handed to
\* retransferTableData, whose first statement is the DELETE.
C24_StructureTablesAreRetransferred ==
    FXReturned =>
        \A j \in ProblematicWith({"STRUCTURE"}) :
            LET table == fx.problematic[j].table
            IN  \E d \in Places({"DROP"}, table),
                   c \in Places({"CREATE"}, table),
                   r \in Places({"DELETE"}, table) : d < c /\ c < r

\* C25: a problematic table with a DATA_CHECKSUM issue and no STRUCTURE
\* issue is never sent a DROP TABLE or CREATE TABLE, and once the repair
\* loop is done with it its rows were deleted and inserts followed; for a
\* table with a STRUCTURE issue every DELETE or insert comes after its DROP
\* TABLE and its CREATE TABLE.
C25_DeleteForDataRecreateFirstForStructure ==
    /\ \A j \in ProblematicWith({"DATA_CHECKSUM"})
                  \ ProblematicWith({"STRUCTURE"}) :
           LET table == fx.problematic[j].table
           IN  /\ Places({"DROP", "CREATE"}, table) = {}
               /\ RepairDone(j) =>
                      \E r \in Places({"DELETE"}, table),
                         n \in Places({"INSERT"}, table) : r < n
    /\ \A j \in ProblematicWith({"STRUCTURE"}) :
           LET table == fx.problematic[j].table
           IN  \A r \in Places({"DELETE", "INSERT"}, table) :
                  /\ \E d \in Places({"DROP"}, table),
                         c \in Places({"CREATE"}, table) : d < c /\ c < r
                  /\ \A d \in Places({"DROP", "CREATE"}, table) : d < r

\* both kinds of table repaired in one run: one deleted and refilled without
\* a DROP TABLE, one recreated and then refilled
C25_Witness ==
    /\ FXReturned
    /\ \E j \in ProblematicWith({"DATA_CHECKSUM"})
                  \ ProblematicWith({"STRUCTURE"}) :
           Places({"INSERT"}, fx.problematic[j].table) # {}
    /\ \E j \in ProblematicWith({"STRUCTURE"}) :
           Places({"INSERT"}, fx.problematic[j].table) # {}

\* C26: when fixDatabaseIssues returns, success says that every problematic
\* table verified MATCH in the final pass, fixed and remaining add up to the
\* number of problematic tables, and results holds one final verification
\* for each problematic table, in their order, and none for a clean table.
C26_ResultCountsTheFinalPass ==
    FXReturned =>
        LET problematic == fx.problematic
            results == fx.result.results
            matching == {j \in DOMAIN results : results[j].status = "MATCH"}
        IN  /\ DOMAIN results = DOMAIN problematic
            /\ \A j \in DOMAIN results :
                   results[j].table = problematic[j].table
            /\ fx.result.success <=> matching = DOMAIN results
            /\ fx.result.fixed = Cardinality(matching)
            /\ fx.result.fixed + fx.result.remaining = Len(problematic)
            /\ \A v \in Range(fx.verified) :
                   v.status = "MATCH" =>
                       \A j \in DOMAIN results : results[j].table # v.table

\* two problematic tables, one fixed and one not, next to no clean one
C26_Witness ==
    /\ FXReturned
    /\ Len(fx.problematic) = 2
    /\ fx.result.fixed = 1
    /\ fx.result.remaining = 1
    /\ ~fx.result.success

\* the first pass of fixDatabaseIssues is over and every table verified
\* MATCH
AllVerifiedMatch ==
    /\ main = "fix"
    /\ fx.listed
    /\ Len(fx.verified) = Len(fx.tables)
    /\ \A v \in Range(fx.verified) : v.status = "MATCH"

\* C27: if every table verifies MATCH in the first pass, fixDatabaseIssues
\* sends no statement that changes the target, leaves the target as it
\* was, and returns success true, fixed 0, remaining 0.
C27_NothingToRepairChangesNothing ==
    AllVerifiedMatch =>
        /\ stmts = <<>>
        /\ tgt = tgt0
        /\ fx.outcome # "threw"
        /\ fx.outcome = "returned" =>
               /\ fx.result.success
               /\ fx.result.fixed = 0
               /\ fx.result.remaining = 0
               /\ fx.result.results = <<>>

\* two tables with rows, both clean, and the run has returned
C27_Witness ==
    /\ AllVerifiedMatch
    /\ fx.outcome = "returned"
    /\ Len(fx.verified) = 2
    /\ \A t \in Range(fx.tables) : src[t] # <<>>

\* C28: the first pass of fixDatabaseIssues verifies exactly the tables
\* that exist on the source and on the target; a table that the target
\* does not have is neither verified nor kept as problematic.
C28_OnlyTablesOnBothSidesAreVerified ==
    (main = "fix" /\ pc = "fx_fix" /\ fx.i = 0) =>
        /\ {v.table : v \in Range(fx.verified)}
               = {t \in Range(tableList) : tgtDef[t] # "absent"}
        /\ \A j \in DOMAIN fx.problematic :
               tgtDef[fx.problematic[j].table] # "absent"

\* the number that a sequence of up to two groups of three digits shows
ShownNumber(groups) ==
    IF Len(groups) = 1 THEN groups[1] ELSE groups[1] * 1000 + groups[2]

\* the percentage of a progress line is current / total in per cent, to
\* the nearest tenth
ShowsTheTrueShare(line) ==
    LET current == ShownNumber(line.current)
        total == ShownNumber(line.total)
        tenths == line.percentage.int * 10 + line.percentage.frac
        off == tenths * total - 1000 * current
    IN  2 * off <= total /\ -2 * off <= total

\* C30: every progress line and the completion line of transferTableData
\* shows the rows transferred so far, the total, and the percentage that
\* the first is of the second, also when the transfer stopped before the
\* last row.
C30_ProgressLinesShowTheTrueShare ==
    \A i \in DOMAIN tt.reports :
        /\ ShownNumber(tt.reports[i].total) = tt.total
        /\ ShownNumber(tt.reports[i].current) <= tt.inserted
        /\ i = Len(tt.reports) =>
               ShownNumber(tt.reports[i].current) = tt.inserted
        /\ ShowsTheTrueShare(tt.reports[i])

\* the lines of the batches alone do show the true share
BatchLinesShowTheTrueShare ==
    \A i \in DOMAIN tt.reports :
        (tt.outcome = "returned" => i < Len(tt.reports))
            => ShowsTheTrueShare(tt.reports[i])

Exited == main = "recover" /\ proc.exitCode # -1

\* C29: after SIGINT or SIGTERM the process issues no further database
\* operation, and when it has exited no connection that it opened is left
\* open.
C29_SignalStopsAndClosesConnections ==
    (main = "recover" /\ proc.signal # "none") =>
        /\ proc.ops = proc.opsAtSignal
        /\ Exited
        /\ proc.sourcePool # "open"
        /\ proc.targetPool # "open"

\* the first half alone: no database operation after the signal
NoOperationAfterSignal ==
    (main = "recover" /\ proc.signal # "none") =>
        proc.ops = proc.opsAtSignal /\ pc = "done"

\* one of the two builders of CREATE TABLE was called on its own
TableDefined ==
    call.fn \in {"createTableIfNotExists", "generateCreateTableSQL"}

\* C31: a column whose CHARACTER_MAXIMUM_LENGTH is -1 is declared as
\* <type>(MAX) by createTableIfNotExists and by generateCreateTableSQL,
\* whatever its data type.
C31_UnboundedLengthIsDeclaredMax ==
    (TableDefined /\ call.column.CHARACTER_MAXIMUM_LENGTH = <<-1>>) =>
        Contains(call.statement, <<call.column.DATA_TYPE, "(MAX)">>)

\* the same for the two types that the builders name: varchar and nvarchar
MaxForVarcharAndNvarchar ==
    (/\ TableDefined
     /\ call.column.CHARACTER_MAXIMUM_LENGTH = <<-1>>
     /\ call.column.DATA_TYPE \in {"varchar", "nvarchar"}) =>
        Contains(call.statement, <<call.column.DATA_TYPE, "(MAX)">>)

\* [table_backup] exists
HasBackup(t) == backup[t] # NoBackup

\* C32: fixTableStructure sends DROP TABLE [table] only after the rows of
\* the table were copied to [table_backup], which then holds the rows the
\* target held before the call; as long as there is no backup, no DROP TABLE
\* was sent and the table is as it was, and a failed backup raises.
C32_NoDropWithoutBackup ==
    main = "fix" =>
        /\ \A p \in DOMAIN stmts :
               stmts[p].kind = "DROP" =>
                   /\ HasBackup(stmts[p].table)
                   /\ backup[stmts[p].table] = tgt0[stmts[p].table]
        /\ (fs.table \in DOMAIN tgt /\ ~HasBackup(fs.table)) =>
               /\ \A p \in DOMAIN stmts :
                      stmts[p].table = fs.table =>
                          /\ stmts[p].kind \notin {"DROP", "CREATE"}
                          /\ stmts[p].kind = "SELECT INTO BACKUP" =>
                                 fs.outcome = "threw"
               /\ tgt[fs.table] = tgt0[fs.table]
               /\ tgtDef[fs.table] = "diff"

\* the table was dropped after its two rows had been copied to the backup
C32_Witness ==
    /\ main = "fix"
    /\ \E t \in DOMAIN tgt :
           /\ Places({"DROP"}, t) # {}
           /\ Len(tgt0[t]) = 2
           /\ HasBackup(t)
           /\ backup[t] = tgt0[t]
           /\ tgt[t] = <<>>

\* C33: in performMigration the exporter connects to the server and the
\* database of the source settings and the importer to the server and the
\* database of the target settings, whatever DB_* held at the start.
C33_ExporterOnSourceImporterOnTarget ==
    (main = "migrate" /\ pc = "done") =>
        /\ call.exporter.server = RecoverySource.server
        /\ call.exporter.database = RecoverySource.database
        /\ call.importer.server = RecoveryTarget.server
        /\ call.importer.database = RecoveryTarget.database

\* what does hold: the importer connects with what step 3 wrote to DB_*,
\* the settings of the source
ImporterConnectsToSource ==
    (main = "migrate" /\ pc = "done") =>
        /\ call.importer.server = RecoverySource.server
        /\ call.importer.database = RecoverySource.database

\* the configuration misses a required variable or names the same server
\* and database twice
InvalidConfiguration(config) ==
    \/ config.missing # {}
    \/ config.source = config.target

\* C34: when validateConfiguration fails, executeDisasterRecovery opens no
\* connection and sends no statement, and raises 'Invalid disaster recovery
\* configuration'.
C34_InvalidConfigurationTouchesNothing ==
    (main = "recover" /\ proc.validated /\ InvalidConfiguration(proc.config))
        => /\ proc.ops = 0
           /\ proc.sourcePool = "none"
           /\ proc.targetPool = "none"
           /\ proc.failed
           /\ proc.error = "Invalid disaster recovery configuration"
           /\ proc.exitCode \in {-1, 1, 130, 143}

\* source and target are the same database, and the process has exited
\* with code 1
C34_Witness ==
    /\ main = "recover"
    /\ proc.validated
    /\ proc.config.missing = {}
    /\ proc.config.source = proc.config.target
    /\ proc.exitCode = 1

\* restoreDatabase has ended the process
Restored == main = "restore" /\ pc = "done"

\* C35: when restoreDatabase ends, every pool it opened is closed, after a
\* success and after a failure alike.
C35_PoolsClosedBeforeTheProcessEnds ==
    Restored => /\ proc.sourcePool # "open"
                /\ proc.targetPool # "open"

\* after a run in which nothing failed both pools are closed
PoolsClosedAfterSuccess ==
    (Restored /\ ~proc.failed) =>
        /\ proc.sourcePool = "closed"
        /\ proc.targetPool = "closed"
        /\ proc.exitCode = 0

\* C36: for every table name of getTableList, getTableSchema looks up the
\* very table that COUNT, SELECT, DELETE, CREATE TABLE and the bulk insert
\* address.
C36_SchemaIsThatOfTheAddressedTable ==
    call.fn = "getTableSchema" =>
        /\ call.lookup.kind = "returned"
        /\ call.lookup.value = call.addressed

\* a name made of word characters only is looked up unchanged
WordNamesAreLookedUpUnchanged ==
    (call.fn = "getTableSchema"
        /\ \A i \in DOMAIN call.tableName : call.tableName[i] \in WordChars)
        => /\ call.lookup.kind = "returned"
           /\ call.lookup.value = call.addressed

\* the windows of a table of total rows start at multiples of the batch
\* size below total: there are CeilDiv(total, batchSize) of them
IsWindowStart(offset, total, batchSize) ==
    /\ offset % batchSize = 0
    /\ offset < total + batchSize

\* what holds at every point of a transfer and of a retransfer: the loop is
\* at the start of a window or past the last one, and executeWithRetry has
\* attempted the window's bulk load at most DEFAULT_MAX_RETRIES times
LoopsAreBounded ==
    /\ tt.outcome = "running" =>
           /\ IsWindowStart(tt.offset, tt.total, BATCH_SIZE)
           /\ Len(hist.fetches) <= CeilDiv(tt.total, BATCH_SIZE)
    /\ rt.outcome = "running" =>
           IsWindowStart(rt.offset, rt.total, RETRANSFER_BATCH_SIZE)
    /\ (retry.op = "bulk" /\ main \in {"transfer", "fix"}) =>
           retry.calls <= DEFAULT_MAX_RETRIES

\* a step inside a transfer or a retransfer leaves the offset alone or
\* advances it by exactly the batch size
OffsetAdvancesByBatchSize ==
    /\ (tt.outcome = "running" /\ tt'.outcome = "running"
           /\ tt'.offset # tt.offset)
        => tt'.offset = tt.offset + BATCH_SIZE
    /\ (rt.outcome = "running" /\ rt'.outcome = "running"
           /\ rt'.offset # rt.offset)
        => rt'.offset = rt.offset + RETRANSFER_BATCH_SIZE

\* where the run is: the statement it is at and the counters of its loops
position ==
    <<pc, retry.attempt, retry.calls, td.idx, tt.offset, fx.idx, fx.i,
      Len(fx.finalResults), rt.offset, fb.idx>>

\* every step of a run moves it on
EveryStepMoves == [][position' # position]_vars

\* C37: transferTableData and retransferTableData terminate when every
\* database call returns or fails: the offset advances by the batch size or
\* the loop is left, there are at most ceil(total / batch size) iterations,
\* and a window's bulk load is attempted at most three times.
C37_TransfersTerminate ==
    /\ []LoopsAreBounded
    /\ [][OffsetAdvancesByBatchSize]_position
    /\ (tt.outcome = "running") ~> (tt.outcome # "running")
    /\ (rt.outcome = "running") ~> (rt.outcome # "running")

\* the runs that transfer or repair one table
TransferInit ==
    /\ Init
    /\ main \in {"transfer", "fix"}
    /\ Len(tableList) = 1

TransferNext ==
    \/ RetryAttempt
    \/ RetryWait
    \/ TDGetTableList
    \/ TDNextTable
    \/ TDAfterTable
    \/ TTGetSchema
    \/ TTCreateTable
    \/ TTCount
    \/ TTFetch
    \/ TTAfterBulk
    \/ TTFinish
    \/ FXConnectAndList
    \/ FXVerifyNext
    \/ FXFixNext
    \/ FXAfterFixStructure
    \/ FXAfterRetransfer
    \/ FXFinalVerify
    \/ FSGetSchemas
    \/ FSDropBackup
    \/ FSBackup
    \/ FSDropTable
    \/ FSCreateTable
    \/ RTDelete
    \/ RTGetSchema
    \/ RTCount
    \/ RTLoop
    \/ RTAfterFetch
    \/ RTAfterBulk
    \/ RTAfterFallback
    \/ FBFetch
    \/ FBInsertRow

\* every step that is enabled is eventually taken: a database call that is
\* awaited returns or fails, and the code after it runs
TransferSpec ==
    TransferInit /\ [][TransferNext]_position /\ WF_position(TransferNext)

\* a table of two windows is transferred to the end although a bulk load
\* had to be repeated
C37_Witness ==
    /\ main = "transfer"
    /\ tt.outcome = "returned"
    /\ Len(hist.fetches) >= 2
    /\ Len(hist.fetches) = CeilDiv(tt.total, BATCH_SIZE)
    /\ hist.bulkFails >= 1

\* C38: createTableIfNotExists takes only an error containing 'already an
\* object' for success and then leaves the existing table as it is; any
\* other failure of CREATE TABLE is raised as a DatabaseError of operation
\* CREATE_TABLE, and transferTableData raises before it reads or inserts
\* a row of that table.
C38_OnlyAlreadyAnObjectIsSwallowed ==
    (main = "transfer" /\ tt.createError # NoError) =>
        IF \E i \in DOMAIN tt.createError :
               tt.createError[i] = "already an object"
        THEN /\ tgtDef[tt.table] # "absent"
             /\ tt.operation = "none"
             /\ Places({"DROP", "ALTER"}, tt.table) = {}
             /\ pc = "tt_count" =>
                    /\ tt.outcome = "running"
                    /\ tgt[tt.table] = tgt0[tt.table]
        ELSE /\ tt.outcome = "threw"
             /\ tt.operation = "CREATE_TABLE"
             /\ tt.error = <<"Error creating table ", tt.table, ": ">>
                               \o tt.createError
             /\ ~tt.counted
             /\ hist = NoHist
             /\ Places({"INSERT"}, tt.table) = {}
             /\ tgt[tt.table] = tgt0[tt.table]

\* CREATE TABLE has failed with an error other than 'already an object'
C38_Witness ==
    /\ main = "transfer"
    /\ tt.createError = ErrTimeout
    /\ tt.operation = "CREATE_TABLE"

\* the table was there and its rows are transferred all the same
CreateSwallowedThenTransferred ==
    /\ main = "transfer"
    /\ tt.createError = ErrAlreadyObject
    /\ tt.outcome = "returned"
    /\ tt.result.transferred > 0

\* C39: executeWithRetry invokes the operation at least once whatever
\* maxRetries is, and resolves only after an invocation that succeeded.
C39_ResolvesOnlyAfterASuccessfulInvocation ==
    (main = "retry" /\ retry.outcome = "returned") =>
        /\ retry.calls >= 1
        /\ retry.calls = retry.failures + 1

\* with maxRetries >= 1 a call that resolves has run the operation, and
\* its last invocation succeeded
ResolvesAfterSuccessFromOneRetry ==
    (main = "retry" /\ retry.outcome = "returned" /\ retry.max >= 1) =>
        /\ retry.calls >= 1
        /\ retry.calls = retry.failures + 1

\* rows is made of rows of all, in their order and each at most once
RECURSIVE IsSubsequence(_, _)
IsSubsequence(rows, all) ==
    IF rows = <<>> THEN TRUE
    ELSE IF all = <<>> THEN FALSE
    ELSE IF Head(rows) = Head(all)
    THEN IsSubsequence(Tail(rows), Tail(all))
    ELSE IsSubsequence(rows, Tail(all))

\* retransferTableData has cleared the target table
Cleared == main = "fix" /\ rt.table \in DOMAIN tgt /\ rt.cleared

\* the schema and the count of the source are read only after the DELETE
DeleteComesFirst ==
    (main = "fix" /\ rt.table \in DOMAIN tgt) =>
        /\ pc \in {"rt_schema", "rt_count", "rt_loop"} => rt.cleared
        /\ rt.counted => rt.cleared

\* C40: retransferTableData deletes the rows of the target before it reads
\* the schema or the count of the source; from then on the target holds
\* only rows this call has inserted, a prefix of the windows, and no row
\* from before the call.
C40_ClearedThenAPrefixOfTheWindows ==
    /\ DeleteComesFirst
    /\ Cleared =>
           \E k \in 0..Len(src[rt.table]) :
               tgt[rt.table] = SubSeq(src[rt.table], 1, k)

\* C40, for what the target holds: from the DELETE on, whether the call
\* returns or raises, the target holds only rows of the source that this
\* call has inserted, in the order of the source and each once, and no row
\* from before the call.
C40_ClearedThenOnlyRowsOfThisCall ==
    /\ DeleteComesFirst
    /\ Cleared =>
           /\ IsSubsequence(tgt[rt.table], src[rt.table])
           /\ \A i \in DOMAIN tgt[rt.table] : tgt[rt.table][i] # StaleRow
           /\ Len(tgt[rt.table]) <= rt.inserted + fb.successCount + Len(rt.rows)

\* the target held a row that is not in the source, and the call has put
\* rows of the source in its place
C40_Witness ==
    /\ Cleared
    /\ \E i \in DOMAIN tgt0[rt.table] : tgt0[rt.table][i] = StaleRow
    /\ rt.outcome = "threw"
    /\ Len(tgt[rt.table]) >= 1

====
